---- MODULE Spec2Model ----
(***************************************************************************)
(* FilterX expression tree of axosyslog: a state-machine model of          *)
(*   - the evaluation of a compound expression (lib/filterx/expr-compound.c)*)
(*   - the init/deinit lifecycle of expression nodes with children         *)
(*     (expr-compound.c, filterx-expr.c, expr-literal-generator.c,         *)
(*      expr-regexp-search.c, expr-template.c)                             *)
(*   - generate() of a literal generator (expr-literal-generator.c)        *)
(*   - the startswith / endswith / includes functions (func-str.c)         *)
(*   - generate() of regexp_search (expr-regexp-search.c)                  *)
(***************************************************************************)
EXTENDS Integers, Sequences, FiniteSets

(* ---------------------------------------------------------------- bounds *)

\* longest child list of a compound expression / most elements of a generator
MaxChildren == 2

\* how many init calls one configuration lifetime makes on a node
MaxRounds == 3

\* most children of a compound / most elements of a literal generator whose
\* init and deinit are followed
MaxNodeChildren == 3

\* longest haystack and needle handed to a process function
MaxLen == 2

\* most needles of one affix function call
MaxNeedles == 2

\* most groups of a regexp_search pattern, the whole match (group 0) included
MaxGroups == 3

\* most positional arguments handed to a constructor
MaxArgs == 3

\* most libssl calls followed within one call of the TLS read method
MaxSslCalls == 3

\* FilterXVariableHandle is a guint32; 1UL is at least that wide, 64 bits here
HandleBits == 32
ULongBits == 64

\* generation counters the callers pass: 0..MaxGeneration
MaxGeneration == 2

\* threads sharing one expression node, and the references they may hold at once
MaxThreads == 3
MaxRefs == 4

\* scratch marks already outstanding when an eval is entered: 0..MaxScratchDepth
MaxScratchDepth == 1

VARIABLES
  \* --- compound expression (FilterXCompoundExpr) and its evaluation context
  exprs,                      \* self->exprs: the children, in declaration order
  return_value_of_last_expr,  \* self->return_value_of_last_expr
  debug_flag,                 \* global debug_flag
  trace_flag,                 \* global trace_flag
  eval_control_modifier,      \* context->eval_control_modifier
  ctx_var,                    \* a context variable every child assigns (its own index)
  errors,                     \* frames pushed by filterx_eval_push_error()
  pc,                         \* position of the evaluation in _eval_compound()
  i,                          \* loop index of _eval_exprs() (1-based)
  result,                     \* *result of _eval_exprs()
  ran,                        \* return value of _eval_exprs()
  ret,                        \* return value of _eval_compound()
  evald,                      \* history: one record per child eval invoked
  unrefd,                     \* history: filterx_object_unref() calls per child object
  \* --- init/deinit lifecycle of one node with children
  kind,                       \* which node type self is
  nchild,                     \* number of child expressions of the node
  phase,                      \* "fresh", "inited", "failed", "deinited"
  rounds,                     \* init calls made so far
  calllog,                    \* init/deinit calls on children made by the last handler
  live,                       \* per child: successful inits minus deinits
  registered,                 \* registrations of the node's eval_count counter
  reg_before,                 \* registered, as it was when the last handler started
  failed_inits,               \* init calls that returned FALSE so far
  \* --- generate() of a literal generator (FilterXExprLiteralGenerator)
  elements,                   \* self->elements: per element whether it has a key, is cloneable
  g_pc,                       \* position in _literal_generator_generate()
  link,                       \* the element the loop of _eval_elements() is at (1-based)
  g_ret,                      \* return value of generate()
  fillable,                   \* the container being filled: its entries, in insertion order
  set_calls,                  \* history: filterx_object_set_subscript() calls made
  g_evald,                    \* history: key / value expressions evaluated, in order
  released,                   \* history: objects passed to filterx_object_unref()
  inner,                      \* which generator runs; an inner one's container and return value
  walk,                       \* what filterx_expr_literal_generator_len and a foreach helper read
  \* --- one call of a process function of startswith / endswith / includes
  p_haystack,                 \* haystack: the bytes before the terminating NUL of the GString
  p_needle,                   \* needle, likewise; the lengths passed are Len() of the two
  p_which,                    \* the process function called, "none" before the call
  p_out,                      \* what it returned
  \* --- an affix function node (FilterXExprAffix) and its last eval
  a_process,                  \* self->process: which of the three functions
  ignore_case,                \* self->ignore_case
  needle_expr,                \* self->needle.expr: what kind of expression the needle is
  cached_strings,             \* self->needle.cached_strings (FilterXStringWithCache entries)
  a_pc,                       \* "new", "ready", "done" (eval returned), "abort"
  a_result,                   \* what the last eval returned: "null", "true", "false"
  a_haystack,                 \* the last eval's formatted haystack
  a_needles,                  \* the last eval's formatted needles, in order
  needle_obj,                 \* what self->needle.expr evaluated to in the last eval
  compared,                   \* history: needles handed to self->process, in order
  needle_evals,               \* history: needle expressions evaluated by the last eval
  ctor_evals,                 \* history: needle expressions evaluated by the constructor
  a_unrefs,                   \* history: filterx_object_unref() calls of _expr_affix_eval_needle()
  \* --- a regexp_search generator (FilterXExprRegexpSearchGenerator)
  flags,                      \* self->flags: keep_zero and list_mode
  pattern,                    \* self->pattern: per capture group 1.. whether it is named
  r_pc,                       \* "new", "created" (container made), "done" (generate returned)
  r_container,                \* the container made by create_container and filled by generate
  r_ret,                      \* return value of generate()
  match,                      \* the match state of the last generate()
  stored,                     \* history: groups stored by the first loop, in order
  r_cleanups,                 \* history: filterx_expr_rematch_state_cleanup() calls of generate()
  \* --- the constructor of regexp_search (filterx_generator_function_regexp_search_new)
  n_args,                     \* the FilterXFunctionArgs handed to the constructor
  n_pc,                       \* "args" before the call, "done" after it
  n_out,                      \* what the constructor returned and did
  \* --- a TLS transport (LogTransportTLS), libssl and the calls made on the transport
  sending_shutdown,           \* self->sending_shutdown
  cond,                       \* self->super.super.cond: "0", "G_IO_IN", "G_IO_OUT"
  errno,                      \* the thread's errno
  peer_closed,                \* libssl has seen the peer's close_notify
  t_pc,                       \* "idle", "read_loop" (in the do-while of read), "returned"
  t_op,                       \* the method called last: "read" or "write"
  t_rc,                       \* what the method returned
  ssl_log,                    \* history: the libssl calls of the current method call, with their outcomes
  \* --- variable slot (filterx-variable.h)
  slot,                       \* the FilterXVariable: handle, assigned, variable_type, generation, value
  v_pc,                       \* "idle", or the operation that ran last
  v_before,                   \* the slot as it was before the last operation
  v_gen_arg,                  \* the generation the caller passed to the last operation
  v_refs,                     \* filterx_object_ref calls of the last operation, per object
  v_unrefs,                   \* filterx_object_unref calls of the last operation, per object
  v_query,                    \* what the handle functions returned for the slot's handle
  \* --- shared expression node (filterx-expr.c ref/unref)
  ref_cnt,                    \* self->ref_cnt
  held,                       \* references each thread holds and has not begun to drop
  u_pc,                       \* per thread: "idle", "dec" (past the assert of unref), "free"
  frees,                      \* times free_fn and g_free ran
  live_at_free,               \* references other holders had when free_fn ran
  assert_failed,              \* the g_assert of filterx_expr_unref failed
  overlapped,                 \* two threads were inside filterx_expr_unref at once
  \* --- per-thread scratch buffers (marks of the compound and affix evals)
  scratch                     \* depth of outstanding marks; before: depth at entry; marks / reclaims made by the eval

evalvars == <<exprs, return_value_of_last_expr, debug_flag, trace_flag,
              eval_control_modifier, ctx_var, errors, pc, i, result, ran, ret,
              evald, unrefd>>
lifevars == <<kind, nchild, phase, rounds, calllog, live, registered, reg_before,
              failed_inits>>
genvars == <<elements, g_pc, link, g_ret, fillable, set_calls, g_evald, released,
             inner, walk>>
procvars == <<p_haystack, p_needle, p_which, p_out>>
affixvars == <<a_process, ignore_case, needle_expr, cached_strings, a_pc, a_result,
               a_haystack, a_needles, needle_obj, compared, needle_evals, ctor_evals,
               a_unrefs>>
rxvars == <<flags, pattern, r_pc, r_container, r_ret, match, stored, r_cleanups>>
newvars == <<n_args, n_pc, n_out>>
tlsvars == <<sending_shutdown, cond, errno, peer_closed, t_pc, t_op, t_rc, ssl_log>>
varvars == <<slot, v_pc, v_before, v_gen_arg, v_refs, v_unrefs, v_query>>
refvars == <<ref_cnt, held, u_pc, frees, live_at_free, assert_failed,
            overlapped>>
scratchvars == <<scratch>>
vars == <<evalvars, lifevars, genvars, procvars, affixvars, rxvars, newvars, tlsvars, varvars, refvars, scratchvars>>

\* what each subsystem leaves alone
notEval == <<lifevars, genvars, procvars, affixvars, rxvars, newvars, tlsvars, varvars, refvars>>
notLife == <<evalvars, genvars, procvars, affixvars, rxvars, newvars, tlsvars, varvars, refvars, scratchvars>>
notGen == <<evalvars, lifevars, procvars, affixvars, rxvars, newvars, tlsvars, varvars, refvars, scratchvars>>
notProc == <<evalvars, lifevars, genvars, affixvars, rxvars, newvars, tlsvars, varvars, refvars, scratchvars>>
notAffix == <<evalvars, lifevars, genvars, procvars, rxvars, newvars, tlsvars, varvars, refvars>>
notRegexp == <<evalvars, lifevars, genvars, procvars, affixvars, newvars, tlsvars, varvars, refvars, scratchvars>>
notNew == <<evalvars, lifevars, genvars, procvars, affixvars, rxvars, tlsvars, varvars, refvars, scratchvars>>
notTls == <<evalvars, lifevars, genvars, procvars, affixvars, rxvars, newvars, varvars, refvars, scratchvars>>
notVar == <<evalvars, lifevars, genvars, procvars, affixvars, rxvars, newvars, tlsvars, refvars, scratchvars>>
notRef == <<evalvars, lifevars, genvars, procvars, affixvars, rxvars, newvars, tlsvars, varvars, scratchvars>>

(* --------------------------------------------------------------- objects *)

\* A FilterXObject pointer. src is the child whose eval produced the object
\* (0: made by the compound itself); NULL is the C null pointer.
NULL == [src |-> 0, type |-> "NULL", truthy |-> FALSE]

\* filterx_boolean_new(TRUE) as called by the compound
filterx_boolean_new_TRUE == [src |-> 0, type |-> "boolean", truthy |-> TRUE]

\* what a child's eval may hand back: a boolean or a (non-empty) string
ObjectKinds == {[type |-> "boolean", truthy |-> TRUE],
                [type |-> "boolean", truthy |-> FALSE],
                [type |-> "string",  truthy |-> TRUE]}

ChildResults(k) == {NULL} \cup {[src |-> k, type |-> o.type, truthy |-> o.truthy] : o \in ObjectKinds}

filterx_object_truthy(o) == o.truthy

Modifiers == {"FXC_UNSET", "FXC_DROP", "FXC_DONE"}

\* a child expression: the two FilterXExpr flags the compound reads
Children == [ignore_falsy_result : BOOLEAN, suppress_from_trace : BOOLEAN]

RECURSIVE SeqsUpTo(_, _)
SeqsUpTo(S, n) == IF n = 0 THEN {<<>>}
                  ELSE LET shorter == SeqsUpTo(S, n - 1)
                       IN shorter \cup {Append(s, x) : s \in {t \in shorter : Len(t) = n - 1}, x \in S}

(* ----------------------------------------------------- compound: helpers *)
(* Each mut_* operator is a faulty variant of the operator defined right    *)
(* after it: the properties below fail when the variant takes its place.    *)

\* _eval_expr(): gboolean success of one child, from its result
mut_eval_expr_ignores_flag(expr, res) == res # NULL /\ filterx_object_truthy(res)
mut_eval_expr_never_halts(expr, res) == res # NULL
_eval_expr(expr, res) ==
  IF res = NULL THEN FALSE
  ELSE expr.ignore_falsy_result \/ filterx_object_truthy(res)

\* _eval_expr(): whether the FILTERX FALSY / FILTERX ESTEP message is rendered
_eval_expr_logs(expr, success) ==
  ((~success /\ debug_flag) \/ trace_flag) /\ ~expr.suppress_from_trace

\* _eval_exprs(): the short-circuit test on the control modifier
mut_short_circuit_drop_only(m) == m = "FXC_DROP"
short_circuit(m) == m = "FXC_DROP" \/ m = "FXC_DONE"

\* _eval_exprs(): the for loop's step
next_index(n) == n + 1

\* _eval_exprs(): g_ptr_array_index(self->exprs, i), the child the n-th
\* iteration evaluates, of len children
mut_expr_at_reversed(n, len) == len - n + 1
expr_at(n, len) == n

\* _eval_compound(): what is returned, what is pushed, and whether result is
\* unref-ed, from _eval_exprs()'s return value and *result
mut_eval_compound_pushes_on_null(ok, res, rvle) ==
  IF ~ok THEN [ret |-> NULL, push |-> TRUE, unref |-> res # NULL]
  ELSE IF res = NULL \/ ~rvle
       THEN [ret |-> filterx_boolean_new_TRUE, push |-> FALSE, unref |-> res # NULL]
       ELSE [ret |-> res, push |-> FALSE, unref |-> FALSE]
mut_eval_compound_always_last(ok, res, rvle) ==
  IF ~ok THEN [ret |-> NULL, push |-> res # NULL, unref |-> res # NULL]
  ELSE IF res = NULL
       THEN [ret |-> filterx_boolean_new_TRUE, push |-> FALSE, unref |-> FALSE]
       ELSE [ret |-> res, push |-> FALSE, unref |-> FALSE]
mut_eval_compound_no_null_check(ok, res, rvle) ==
  IF ~ok THEN [ret |-> NULL, push |-> res # NULL, unref |-> res # NULL]
  ELSE IF ~rvle
       THEN [ret |-> filterx_boolean_new_TRUE, push |-> FALSE, unref |-> res # NULL]
       ELSE [ret |-> res, push |-> FALSE, unref |-> FALSE]
mut_eval_compound_keeps_falsy(ok, res, rvle) ==
  IF ~ok THEN [ret |-> res, push |-> res # NULL, unref |-> FALSE]
  ELSE IF res = NULL \/ ~rvle
       THEN [ret |-> filterx_boolean_new_TRUE, push |-> FALSE, unref |-> res # NULL]
       ELSE [ret |-> res, push |-> FALSE, unref |-> FALSE]
_eval_compound(ok, res, rvle) ==
  IF ~ok
  THEN [ret |-> NULL, push |-> res # NULL, unref |-> res # NULL]
  ELSE IF res = NULL \/ ~rvle
       THEN [ret |-> filterx_boolean_new_TRUE, push |-> FALSE, unref |-> res # NULL]
       ELSE [ret |-> res, push |-> FALSE, unref |-> FALSE]

\* filterx_eval_push_error(msg, expr, object): a frame on the context's stack
filterx_eval_push_error(stack, msg, object) ==
  Append(stack, [msg |-> msg, object |-> object])

\* filterx_object_unref(o) seen from the compound: NULL is ignored
filterx_object_unref(counts, o) ==
  IF o = NULL THEN counts ELSE [counts EXCEPT ![o.src] = @ + 1]

\* the compound still owns the reference *result points to
OwnsResult == result # NULL /\ unrefd[result.src] = 0

(* ----------------------------------------------- compound: state machine *)

InitEval ==
  /\ exprs \in SeqsUpTo(Children, MaxChildren)
  /\ return_value_of_last_expr \in BOOLEAN
  /\ debug_flag \in BOOLEAN
  /\ trace_flag \in BOOLEAN
  /\ eval_control_modifier \in Modifiers
  /\ ctx_var = 0
  /\ errors = <<>>
  /\ pc = "idle"
  /\ i = 0
  /\ result = NULL
  /\ ran = FALSE
  /\ ret = NULL
  /\ evald = <<>>
  /\ unrefd = [k \in 1..MaxChildren |-> 0]

IdleLife ==
  /\ kind = "none" /\ nchild = 0 /\ phase = "fresh" /\ rounds = 0
  /\ calllog = <<>> /\ live = [c \in 1..2 * MaxNodeChildren |-> 0]
  /\ registered = 0 /\ reg_before = 0 /\ failed_inits = 0

\* a generator of the given kind before it runs: for an inner generator,
\* created tells that its container exists, unrefs counts the releases of
\* the container, root_unrefs those of the root fillable, ret is what eval
\* returned
\* a walk of an element list that was not made, and the state before
\* filterx_expr_literal_generator_len and a foreach helper are called
NoRead == [called |-> FALSE, crashed |-> FALSE, n |-> 0, through |-> FALSE]
NoWalk == [len |-> NoRead, each |-> NoRead]

GeneratorOfKind(k) ==
  [kind |-> k, created |-> FALSE, unrefs |-> 0, root_unrefs |-> 0, ret |-> "none"]

IdleGen ==
  /\ elements = <<>> /\ g_pc = "idle" /\ link = 0 /\ g_ret = FALSE
  /\ fillable = <<>> /\ set_calls = <<>> /\ g_evald = <<>> /\ released = <<>>
  /\ inner = GeneratorOfKind("root")
  /\ walk = NoWalk

IdleProc ==
  /\ p_haystack = <<>> /\ p_needle = <<>> /\ p_which = "none" /\ p_out = FALSE

\* an object that is not there: a failed evaluation, a NULL pointer
NoObject == [type |-> "null", strs |-> <<>>]

IdleAffix ==
  /\ a_process = "none" /\ ignore_case = FALSE
  /\ needle_expr = [kind |-> "none", elems |-> <<>>]
  /\ cached_strings = <<>> /\ a_pc = "idle" /\ a_result = "null"
  /\ a_haystack = <<>> /\ a_needles = <<>> /\ needle_obj = NoObject
  /\ compared = <<>> /\ needle_evals = <<>> /\ ctor_evals = <<>> /\ a_unrefs = <<>>

IdleRegexp ==
  /\ flags = [keep_zero |-> FALSE, list_mode |-> FALSE]
  /\ pattern = <<>> /\ r_pc = "idle"
  /\ r_container = [type |-> "none", entries |-> <<>>]
  /\ r_ret = FALSE
  /\ match = [matched |-> FALSE, match_data |-> FALSE, ovector |-> <<>>]
  /\ stored = <<>>
  /\ r_cleanups = 0

IdleNew ==
  /\ n_args = [len |-> 0, pattern |-> "none", keep_zero |-> "absent",
               list_mode |-> "absent", check_ok |-> FALSE]
  /\ n_pc = "idle"
  /\ n_out = [ret |-> "NULL", error |-> "none", calls |-> <<>>]

IdleTls ==
  /\ sending_shutdown = FALSE /\ cond = "0" /\ errno = "0" /\ peer_closed = FALSE
  /\ t_pc = "off" /\ t_op = "none" /\ t_rc = 0 /\ ssl_log = <<>>

\* a word of w bits, bit n at index n
ZeroWord(w) == [bit \in 0..(w - 1) |-> FALSE]

VarObjects == {"o1", "o2"}
NoValue == "NULL"
NoCalls == [o \in VarObjects |-> 0]

IdleVar ==
  /\ slot = [handle |-> ZeroWord(HandleBits), assigned |-> FALSE,
             variable_type |-> "FX_VAR_MESSAGE_TIED", generation |-> 0, value |-> NoValue]
  /\ v_pc = "idle"
  /\ v_before = slot
  /\ v_gen_arg = 0
  /\ v_refs = NoCalls
  /\ v_unrefs = NoCalls
  /\ v_query = [floating |-> FALSE, message_tied |-> FALSE, nv_handle |-> ZeroWord(HandleBits)]

Threads == 1..MaxThreads

IdleRef ==
  /\ ref_cnt = 0
  /\ held = [t \in Threads |-> 0]
  /\ u_pc = [t \in Threads |-> "idle"]
  /\ frees = 0
  /\ live_at_free = 0
  /\ assert_failed = FALSE
  /\ overlapped = FALSE

\* the scratch buffers with depth marks outstanding, nothing done yet
ScratchAt(depth) == [depth |-> depth, before |-> depth, marks |-> 0, reclaims |-> 0]

IdleScratch == scratch = ScratchAt(0)

InitScratch == scratch \in {ScratchAt(depth) : depth \in 0..MaxScratchDepth}

\* scratch_buffers_mark(&marker) / scratch_buffers_alloc_and_mark(&marker):
\* the marker remembers the depth, one more mark is outstanding
scratch_buffers_mark(s) ==
  [st |-> [s EXCEPT !.depth = @ + 1, !.marks = @ + 1], marker |-> s.depth]

\* scratch_buffers_reclaim_marked(marker): back to the marker's depth
scratch_buffers_reclaim_marked(s, marker) ==
  [s EXCEPT !.depth = marker, !.reclaims = @ + 1]

mut_eval_expr_skips_reclaim(s, logs, rendered) ==
  IF logs THEN scratch_buffers_mark(s).st ELSE s

\* _eval_expr(): the mark and the reclaim around the rendering of the log
\* message; when neither repr nor marshal renders the object the process
\* stops at g_assert_not_reached() with the mark taken
eval_expr_scratch(s, logs, rendered) ==
  IF ~logs THEN s
  ELSE LET m == scratch_buffers_mark(s)
       IN IF rendered THEN scratch_buffers_reclaim_marked(m.st, m.marker) ELSE m.st

mut_affix_eval_skips_reclaim(s, returns) == scratch_buffers_mark(s).st

\* _expr_affix_eval(): the mark at entry and the reclaim at the exit label,
\* which every return goes through
affix_eval_scratch(s, returns) ==
  LET m == scratch_buffers_mark(s)
  IN IF returns THEN scratch_buffers_reclaim_marked(m.st, m.marker) ELSE m.st

\* every subsystem but the compound evaluation / the lifecycle at rest
IdleButEval == IdleLife /\ IdleGen /\ IdleProc /\ IdleAffix /\ IdleRegexp /\ IdleNew /\ IdleTls /\ IdleVar /\ IdleRef /\ IdleScratch
IdleButLife == IdleGen /\ IdleProc /\ IdleAffix /\ IdleRegexp /\ IdleNew /\ IdleTls /\ IdleVar /\ IdleRef /\ IdleScratch

\* filterx_expr_eval(compound) is entered: _eval_compound() calls _eval_exprs()
EnterEval ==
  /\ pc = "idle"
  /\ result' = NULL
  /\ i' = 1
  /\ pc' = "loop"
  /\ UNCHANGED <<exprs, return_value_of_last_expr, debug_flag, trace_flag,
                 eval_control_modifier, ctx_var, errors, ran, ret, evald, unrefd,
                 scratch>>

\* one iteration of the loop that finds the control modifier set
ShortCircuit ==
  /\ pc = "loop"
  /\ i <= Len(exprs)
  /\ short_circuit(eval_control_modifier)
  /\ unrefd' = filterx_object_unref(unrefd, result)
  /\ ran' = TRUE
  /\ pc' = "tail"
  /\ UNCHANGED <<exprs, return_value_of_last_expr, debug_flag, trace_flag,
                 eval_control_modifier, ctx_var, errors, i, result, ret, evald, scratch>>

\* one iteration of the loop that evaluates child i: the child returns res and
\* leaves the control modifier at m; rendered tells whether repr or marshal of
\* the result succeeds when the step is logged
EvalChild ==
  /\ pc = "loop"
  /\ i <= Len(exprs)
  /\ ~short_circuit(eval_control_modifier)
  /\ \E res \in ChildResults(expr_at(i, Len(exprs))),
        m \in {eval_control_modifier, "FXC_DROP", "FXC_DONE"},
        rendered \in BOOLEAN :
       LET c == expr_at(i, Len(exprs))
           expr == exprs[c]
           success == _eval_expr(expr, res)
           logs == res # NULL /\ _eval_expr_logs(expr, success)
       IN /\ (~logs => rendered)
          /\ unrefd' = filterx_object_unref(unrefd, result)
          /\ result' = res
          /\ eval_control_modifier' = m
          /\ evald' = Append(evald, [idx |-> c, res |-> res, mod |-> m, seen |-> ctx_var,
                                     before |-> eval_control_modifier])
          /\ ctx_var' = c
          /\ scratch' = eval_expr_scratch(scratch, logs, rendered)
          /\ IF logs /\ ~rendered
             THEN /\ pc' = "abort"          \* g_assert_not_reached()
                  /\ UNCHANGED <<i, ran>>
             ELSE IF success
                  THEN /\ i' = next_index(i)
                       /\ UNCHANGED <<pc, ran>>
                  ELSE /\ ran' = FALSE
                       /\ pc' = "tail"
                       /\ UNCHANGED i
  /\ UNCHANGED <<exprs, return_value_of_last_expr, debug_flag, trace_flag, errors, ret>>

\* the loop ran through all children
LoopDone ==
  /\ pc = "loop"
  /\ i > Len(exprs)
  /\ ran' = TRUE
  /\ pc' = "tail"
  /\ UNCHANGED <<exprs, return_value_of_last_expr, debug_flag, trace_flag,
                 eval_control_modifier, ctx_var, errors, i, result, ret, evald, unrefd,
                 scratch>>

\* _eval_compound() after _eval_exprs() returned. Unref-ing an object whose
\* reference was already dropped touches memory that may have been freed: the
\* call either goes through or the process dies (survives = FALSE).
Finish ==
  /\ pc = "tail"
  /\ LET out == _eval_compound(ran, result, return_value_of_last_expr)
     IN \E survives \in BOOLEAN :
          /\ ((~out.unref \/ OwnsResult) => survives)
          /\ errors' = IF out.push
                       THEN filterx_eval_push_error(errors, "bailing out due to a falsy expr", result)
                       ELSE errors
          /\ unrefd' = IF out.unref THEN filterx_object_unref(unrefd, result) ELSE unrefd
          /\ IF survives
             THEN /\ ret' = out.ret
                  /\ pc' = "done"
             ELSE /\ pc' = "abort"
                  /\ UNCHANGED ret
  /\ UNCHANGED <<exprs, return_value_of_last_expr, debug_flag, trace_flag,
                 eval_control_modifier, ctx_var, i, result, ran, evald, scratch>>

Init == InitEval /\ InitScratch /\ IdleLife /\ IdleGen /\ IdleProc /\ IdleAffix /\ IdleRegexp /\ IdleNew /\ IdleTls /\ IdleVar /\ IdleRef

Next ==
  \/ (EnterEval /\ UNCHANGED notEval)
  \/ (ShortCircuit /\ UNCHANGED notEval)
  \/ (EvalChild /\ UNCHANGED notEval)
  \/ (LoopDone /\ UNCHANGED notEval)
  \/ (Finish /\ UNCHANGED notEval)

Spec == Init /\ [][Next]_vars

(* ------------------------------------------------- lifecycle: handlers *)

\* A call the node's handler makes on a child: filterx_expr_init(child, cfg)
\* with its outcome, or filterx_expr_deinit(child, cfg).
Ev(op, c, ok) == [op |-> op, child |-> c, ok |-> ok]
InitOk(c) == <<Ev("init", c, TRUE)>>
InitFail(c) == <<Ev("init", c, FALSE)>>
Deinit(c) == <<Ev("deinit", c, TRUE)>>

\* What a handler did: its return value, its calls on children in order, and the
\* change it made to the registrations of the node's counter.
Outcome(ok, log, reg) == [ok |-> ok, log |-> log, reg |-> reg]

\* filterx_expr_init_method(): the base init, always TRUE
filterx_expr_init_method == TRUE

\* filterx_generator_init_method(): the generator's base init
filterx_generator_init_method == TRUE

\* expr-compound.c _init(): n children, of which child failAt (0: none) fails
mut_compound_init_reverse(n, failAt) ==
  IF failAt \in 1..n
  THEN [ok |-> FALSE,
        log |-> [k \in 1..failAt - 1 |-> Ev("init", k, TRUE)]
                  \o InitFail(failAt)
                  \o [j \in 1..failAt - 1 |-> Ev("deinit", failAt - j, TRUE)],
        reg |-> 0]
  ELSE [ok |-> TRUE, log |-> [k \in 1..n |-> Ev("init", k, TRUE)], reg |-> 1]
compound_init(n, failAt) ==
  IF failAt \in 1..n
  THEN Outcome(FALSE,
               [k \in 1..failAt - 1 |-> Ev("init", k, TRUE)]
                 \o InitFail(failAt)
                 \o [j \in 1..failAt - 1 |-> Ev("deinit", j, TRUE)],
               0)
  ELSE Outcome(filterx_expr_init_method, [k \in 1..n |-> Ev("init", k, TRUE)], 1)

\* expr-compound.c _deinit()
mut_compound_deinit_keeps_counter(n) ==
  [ok |-> TRUE, log |-> [k \in 1..n |-> Ev("deinit", k, TRUE)], reg |-> 0]
compound_deinit(n) ==
  Outcome(TRUE, [k \in 1..n |-> Ev("deinit", k, TRUE)], -1)

\* filterx_unary_op_init_method(): the operand is child 1
filterx_unary_op_init_method(failAt) ==
  IF failAt = 1
  THEN Outcome(FALSE, InitFail(1), 0)
  ELSE Outcome(filterx_expr_init_method, InitOk(1), 1)

filterx_unary_op_deinit_method ==
  Outcome(TRUE, Deinit(1), -1)

\* filterx_binary_op_init_method(): lhs is child 1, rhs is child 2
filterx_binary_op_init_method(failAt) ==
  IF failAt = 1
  THEN Outcome(FALSE, InitFail(1), 0)
  ELSE IF failAt = 2
       THEN Outcome(FALSE, InitOk(1) \o InitFail(2), 0)
       ELSE Outcome(filterx_expr_init_method, InitOk(1) \o InitOk(2), 1)

filterx_binary_op_deinit_method ==
  Outcome(TRUE, Deinit(1) \o Deinit(2), -1)

\* Element e of a literal generator: its key is child 2e-1 and its value child
\* 2e. A list element has no key (elem->key is NULL): no call is made on it.
KeyOf(e) == 2 * e - 1
ValueOf(e) == 2 * e

\* _literal_generator_elem_init(): [ok, log]
_literal_generator_elem_init(e, keyed, failAt) ==
  IF keyed /\ failAt = KeyOf(e)
  THEN [ok |-> FALSE, log |-> InitFail(KeyOf(e))]
  ELSE IF failAt = ValueOf(e)
       THEN [ok |-> FALSE,
             log |-> (IF keyed THEN InitOk(KeyOf(e)) ELSE <<>>)
                       \o InitFail(ValueOf(e))
                       \o (IF keyed THEN Deinit(KeyOf(e)) ELSE <<>>)]
       ELSE [ok |-> TRUE,
             log |-> (IF keyed THEN InitOk(KeyOf(e)) ELSE <<>>) \o InitOk(ValueOf(e))]

\* _literal_generator_elem_deinit()
_literal_generator_elem_deinit(e, keyed) ==
  (IF keyed THEN Deinit(KeyOf(e)) ELSE <<>>) \o Deinit(ValueOf(e))

\* the deinit loop over elements first..last, in list order
RECURSIVE ElemsDeinit(_, _, _)
ElemsDeinit(first, last, keyed) ==
  IF first > last THEN <<>>
  ELSE _literal_generator_elem_deinit(first, keyed) \o ElemsDeinit(first + 1, last, keyed)

\* _literal_generator_init(): the loop from element e on
RECURSIVE ElemsInit(_, _, _, _)
ElemsInit(e, n, keyed, failAt) ==
  IF e > n THEN Outcome(filterx_generator_init_method, <<>>, 0)
  ELSE LET one == _literal_generator_elem_init(e, keyed, failAt)
       IN IF ~one.ok
          THEN Outcome(FALSE, one.log \o ElemsDeinit(1, e - 1, keyed), 0)
          ELSE LET rest == ElemsInit(e + 1, n, keyed, failAt)
               IN Outcome(rest.ok, one.log \o rest.log, 0)

_literal_generator_init(n, keyed, failAt) == ElemsInit(1, n, keyed, failAt)

\* _literal_generator_deinit()
_literal_generator_deinit(n, keyed) ==
  Outcome(TRUE, ElemsDeinit(1, n, keyed), 0)

\* _regexp_search_generator_init(): lhs is child 1
_regexp_search_generator_init(failAt) ==
  IF failAt = 1
  THEN Outcome(FALSE, InitFail(1), 0)
  ELSE Outcome(filterx_generator_init_method, InitOk(1), 0)

_regexp_search_generator_deinit ==
  Outcome(TRUE, Deinit(1), 0)

\* expr-template.c _template_init() / _template_deinit(): no children
_template_init == Outcome(filterx_expr_init_method, <<>>, 1)
_template_deinit == Outcome(TRUE, <<>>, -1)

Kinds == {"compound", "unary_op", "binary_op", "literal_dict_generator",
          "literal_list_generator", "regexp_search", "template"}

\* how many children / elements a node of kind k may be built with
Arities(k) ==
  CASE k \in {"compound", "literal_dict_generator", "literal_list_generator"} -> 0..MaxNodeChildren
    [] k = "binary_op" -> {2}
    [] k \in {"unary_op", "regexp_search"} -> {1}
    [] OTHER -> {0}

\* the child expressions a node of kind k with arity n holds
ChildIds(k, n) ==
  CASE k = "literal_dict_generator" -> 1..2 * n
    [] k = "literal_list_generator" -> {ValueOf(e) : e \in 1..n}
    [] OTHER -> 1..n

\* self->init(self, cfg), dispatched on the node's type
node_init(k, n, failAt) ==
  CASE k = "compound" -> compound_init(n, failAt)
    [] k = "unary_op" -> filterx_unary_op_init_method(failAt)
    [] k = "binary_op" -> filterx_binary_op_init_method(failAt)
    [] k = "literal_dict_generator" -> _literal_generator_init(n, TRUE, failAt)
    [] k = "literal_list_generator" -> _literal_generator_init(n, FALSE, failAt)
    [] k = "regexp_search" -> _regexp_search_generator_init(failAt)
    [] OTHER -> _template_init

\* self->deinit(self, cfg), dispatched on the node's type
node_deinit(k, n) ==
  CASE k = "compound" -> compound_deinit(n)
    [] k = "unary_op" -> filterx_unary_op_deinit_method
    [] k = "binary_op" -> filterx_binary_op_deinit_method
    [] k = "literal_dict_generator" -> _literal_generator_deinit(n, TRUE)
    [] k = "literal_list_generator" -> _literal_generator_deinit(n, FALSE)
    [] k = "regexp_search" -> _regexp_search_generator_deinit
    [] OTHER -> _template_deinit

\* calls of the log on child c
InitsOk(log, c) == Cardinality({x \in DOMAIN log : log[x] = Ev("init", c, TRUE)})
Deinits(log, c) == Cardinality({x \in DOMAIN log : log[x] = Ev("deinit", c, TRUE)})

(* -------------------------------------------- lifecycle: state machine *)

AllChildIds == 1..2 * MaxNodeChildren

InitLife ==
  /\ kind \in Kinds
  /\ nchild \in Arities(kind)
  /\ phase = "fresh"
  /\ rounds = 0
  /\ calllog = <<>>
  /\ live = [c \in AllChildIds |-> 0]
  /\ registered = 0
  /\ reg_before = 0
  /\ failed_inits = 0

IdleEval ==
  /\ exprs = <<>> /\ return_value_of_last_expr = FALSE
  /\ debug_flag = FALSE /\ trace_flag = FALSE
  /\ eval_control_modifier = "FXC_UNSET" /\ ctx_var = 0 /\ errors = <<>>
  /\ pc = "idle" /\ i = 0 /\ result = NULL /\ ran = FALSE /\ ret = NULL
  /\ evald = <<>> /\ unrefd = [k \in 1..MaxChildren |-> 0]

Apply(out) ==
  /\ calllog' = out.log
  /\ live' = [c \in AllChildIds |-> live[c] + InitsOk(out.log, c) - Deinits(out.log, c)]
  /\ reg_before' = registered
  /\ registered' = registered + out.reg

\* filterx_expr_init(node, cfg): the configuration is initialised; the init of
\* child failAt (0: of none) fails
NodeInit ==
  /\ phase \in {"fresh", "failed", "deinited"}
  /\ rounds < MaxRounds
  /\ \E failAt \in {0} \cup ChildIds(kind, nchild) :
       LET out == node_init(kind, nchild, failAt)
       IN /\ Apply(out)
          /\ phase' = IF out.ok THEN "inited" ELSE "failed"
          /\ failed_inits' = IF out.ok THEN failed_inits ELSE failed_inits + 1
  /\ rounds' = rounds + 1
  /\ UNCHANGED <<kind, nchild>>

\* filterx_expr_deinit(node, cfg) after a successful init
NodeDeinit ==
  /\ phase = "inited"
  /\ Apply(node_deinit(kind, nchild))
  /\ phase' = "deinited"
  /\ UNCHANGED <<kind, nchild, rounds, failed_inits>>

LifeInit == InitLife /\ IdleEval /\ IdleButLife

LifeNext ==
  \/ (NodeInit /\ UNCHANGED notLife)
  \/ (NodeDeinit /\ UNCHANGED notLife)

SpecLifecycle == LifeInit /\ [][LifeNext]_vars

(* ------------------------------------------------- compound: properties *)

Returned == pc = "done"
LoopOver == pc = "tail" \/ pc = "done"
Stops(m) == m = "FXC_DROP" \/ m = "FXC_DONE"

\* the k-th evaluated child returned a non-null falsy object
Falsy(k) == evald[k].res # NULL /\ ~evald[k].res.truthy
Truthy(k) == evald[k].res # NULL /\ evald[k].res.truthy
Ignored(k) == exprs[evald[k].idx].ignore_falsy_result

\* C1: once a child returned a non-null falsy object and its
\* ignore_falsy_result is false, no child declared after it has its eval
\* invoked in this evaluation of the compound.
C1_FalsyShortCircuit ==
  \A k \in DOMAIN evald :
    (Falsy(k) /\ ~Ignored(k)) => \A j \in DOMAIN evald : evald[j].idx <= evald[k].idx

C1_Witness ==
  /\ Returned
  /\ \E k \in DOMAIN evald : Falsy(k) /\ ~Ignored(k) /\ evald[k].idx < Len(exprs)

\* C2: a child is evaluated only if the control modifier was neither DROP nor
\* DONE at the loop's check before it; so when the modifier is set on entry
\* no child is evaluated, and after a child set it no later child is.
C2_CooperativeCancellation ==
  /\ \A k \in DOMAIN evald : ~Stops(evald[k].before)
  /\ \A k \in DOMAIN evald :
       Stops(evald[k].mod) => \A j \in DOMAIN evald : evald[j].idx <= evald[k].idx

C2_Witness ==
  /\ Returned
  /\ \E k \in DOMAIN evald :
       /\ evald[k].mod = "FXC_DONE"
       /\ evald[k].idx < Len(exprs)
       /\ k = Len(evald)

\* C3 (as claimed): when a child before the last one set the modifier to DROP
\* or DONE (and itself counted as successful), the compound returns a boolean
\* true whose reference the caller owns, and pushes no error, in both modes.
C3_DropReturnsTrue ==
  (Returned /\ \E k \in DOMAIN evald :
                 /\ Stops(evald[k].mod)
                 /\ evald[k].idx < Len(exprs)
                 /\ _eval_expr(exprs[evald[k].idx], evald[k].res))
  => /\ ret.type = "boolean" /\ ret.truthy
     /\ (ret.src # 0 => unrefd[ret.src] = 0)
     /\ errors = <<>>

\* C30: on every exit path of a compound's eval, each object a child's eval
\* returned is either released exactly once or is the one object returned to
\* the caller with its reference intact; no object is released twice and no
\* released object is returned.
C30_ReferenceBalance ==
  /\ \A src \in DOMAIN unrefd : unrefd[src] <= 1
  /\ Returned =>
       \A k \in DOMAIN evald :
          evald[k].res # NULL =>
             unrefd[evald[k].res.src] = IF ret = evald[k].res THEN 0 ELSE 1

\* the step evaluates a child
ChildStep == pc = "loop" /\ Len(evald') > Len(evald)

\* what a child step does when nothing is logged: the child's object is the
\* result, no error is pushed, and the loop goes on or halts by the child's
\* success alone
QuietChildStep ==
  LET ev == evald'[Len(evald')]
  IN /\ result' = ev.res
     /\ errors' = errors
     /\ IF _eval_expr(exprs[ev.idx], ev.res)
        THEN pc' = "loop" /\ i' = next_index(i)
        ELSE pc' = "tail" /\ ~ran'

\* C38: for the same children and child results a compound's eval returns
\* the same result, evaluates the same children, pushes the same errors and
\* terminates normally whether debug_flag / trace_flag are on or off and
\* whatever suppress_from_trace is, also for objects whose repr and marshal
\* both fail: every child step does what it does when nothing is logged.
C38_LoggingChangesNothing ==
  [][ChildStep => (pc' # "abort" /\ QuietChildStep)]_vars

\* logging changes nothing as long as the object can be rendered
LoggingChangesNothingIfRendered ==
  [][(ChildStep /\ pc' # "abort") => QuietChildStep]_vars

\* with logging off, or suppressed for the child, no child step stops the process
QuietRunsNeverStop ==
  [][(ChildStep /\ ~debug_flag /\ ~trace_flag) => pc' # "abort"]_vars

\* C4: when all n >= 1 children were evaluated, returned truthy objects and
\* none set the control modifier, the compound returns boolean true in block
\* mode and exactly the last child's object (its reference intact) in
\* statement-expression mode, and pushes no error.
C4_AllTruthy ==
  (/\ Returned
   /\ Len(exprs) >= 1
   /\ Len(evald) = Len(exprs)
   /\ \A k \in DOMAIN evald : Truthy(k) /\ evald[k].mod = "FXC_UNSET")
  => /\ errors = <<>>
     /\ IF return_value_of_last_expr
        THEN /\ ret = evald[Len(evald)].res
             /\ ret.src = Len(exprs)
             /\ unrefd[ret.src] = 0
        ELSE ret = filterx_boolean_new_TRUE

C4_Witness ==
  /\ Returned
  /\ Len(exprs) >= 2
  /\ Len(evald) = Len(exprs)
  /\ \A k \in DOMAIN evald : Truthy(k) /\ evald[k].mod = "FXC_UNSET"
  /\ return_value_of_last_expr
  /\ ret.type = "string"

\* C5 (as claimed): when a child's eval returned null, the compound returns
\* null and has pushed a "bailing out due to a falsy expr" frame.
C5_NullChildPushesError ==
  (Returned /\ evald # <<>> /\ evald[Len(evald)].res = NULL)
  => /\ ret = NULL
     /\ \E f \in DOMAIN errors : errors[f].msg = "bailing out due to a falsy expr"

\* C5 (amended): when a child's eval returned null, the compound returns null
\* and pushes no frame of its own; the "bailing out" frame is pushed only for
\* a non-null falsy result.
C5_NullChildNoFrame ==
  (Returned /\ evald # <<>> /\ evald[Len(evald)].res = NULL)
  => /\ ret = NULL
     /\ errors = <<>>

C5_Witness ==
  /\ Returned
  /\ Len(evald) >= 2
  /\ evald[Len(evald)].res = NULL

\* C6: when a child returned a non-null falsy object and its
\* ignore_falsy_result is false, the compound returns null in both modes and
\* has pushed exactly one frame, which carries that object; the object is
\* released once.
C6_FalsyHalt ==
  \A k \in DOMAIN evald :
    (Returned /\ Falsy(k) /\ ~Ignored(k))
    => /\ ret = NULL
       /\ errors = <<[msg |-> "bailing out due to a falsy expr", object |-> evald[k].res]>>
       /\ unrefd[evald[k].res.src] = 1

C6_Witness ==
  /\ Returned
  /\ return_value_of_last_expr
  /\ \E k \in DOMAIN evald : Falsy(k) /\ ~Ignored(k) /\ k >= 2

\* C7: a compound without children evaluates nothing, returns boolean true in
\* both modes and pushes no error.
C7_EmptyCompound ==
  (Len(exprs) = 0)
  => /\ evald = <<>>
     /\ errors = <<>>
     /\ (Returned => ret = filterx_boolean_new_TRUE)
     /\ pc # "abort"

C7_Witness ==
  Returned /\ Len(exprs) = 0 /\ return_value_of_last_expr

\* C8: a child counts as successful iff its ignore_falsy_result is set or its
\* result is truthy. The loop fails only on a null or an unsuccessful result;
\* an ignored falsy result pushes no error, is followed by the evaluation of
\* the next child (when the control modifier does not cancel the loop), and is
\* what a statement-expression returns when it came from the last child.
C8_IgnoreFalsy ==
  /\ (LoopOver /\ ~ran) =>
       /\ evald # <<>>
       /\ LET last == Len(evald)
          IN evald[last].res = NULL \/ (Falsy(last) /\ ~Ignored(last))
  /\ \A k \in DOMAIN evald :
       (Falsy(k) /\ Ignored(k)) =>
         /\ \A f \in DOMAIN errors : errors[f].object # evald[k].res
         /\ (LoopOver /\ evald[k].idx < Len(exprs) /\ ~Stops(evald[k].mod))
              => \E j \in DOMAIN evald : evald[j].idx = evald[k].idx + 1
         /\ (Returned /\ evald[k].idx = Len(exprs) /\ return_value_of_last_expr)
              => ret = evald[k].res /\ unrefd[ret.src] = 0

C8_Witness ==
  /\ Returned
  /\ return_value_of_last_expr
  /\ Len(evald) >= 2
  /\ Falsy(1) /\ Ignored(1)
  /\ Falsy(Len(evald)) /\ Ignored(Len(evald))
  /\ ret = evald[Len(evald)].res

\* C9: the k-th eval invoked is that of the k-th declared child (declaration
\* order, no child twice), and it starts after the previous child's eval
\* returned: it sees the context variable the previous child assigned.
C9_DeclarationOrder ==
  \A k \in DOMAIN evald :
    /\ evald[k].idx = k
    /\ evald[k].seen = k - 1

C9_Witness ==
  Returned /\ Len(evald) >= 2 /\ Len(evald) = Len(exprs)

(* ------------------------------------------------ lifecycle: properties *)

\* C10 (as claimed): when the init of a node fails, every child that the call
\* initialised successfully has been deinit-ed exactly once by the call, and
\* no registration of the node's counter made by the call remains.
C10_InitRollback ==
  (phase = "failed")
  => /\ \A c \in AllChildIds : Deinits(calllog, c) = InitsOk(calllog, c)
     /\ registered = reg_before

\* the children a log calls op on (init: successfully), in call order
CalledOn(log, op) ==
  LET hits == SelectSeq(log, LAMBDA e : e.op = op /\ e.ok)
  IN [x \in DOMAIN hits |-> hits[x].child]

\* the child whose init failed in the log (0: none)
FailedChild(log) ==
  IF \E x \in DOMAIN log : ~log[x].ok
  THEN log[CHOOSE x \in DOMAIN log : ~log[x].ok].child
  ELSE 0

\* the element (generator) or child (other nodes) that child expression c is part of
UnitOf(k, c) ==
  IF k \in {"literal_dict_generator", "literal_list_generator"} THEN (c + 1) \div 2 ELSE c

\* the children of the units before the failing one, as they were initialised
\* and as they were rolled back
InitedBefore(k, log) ==
  SelectSeq(CalledOn(log, "init"), LAMBDA c : UnitOf(k, c) < UnitOf(k, FailedChild(log)))
RolledBack(k, log) ==
  SelectSeq(CalledOn(log, "deinit"), LAMBDA c : UnitOf(k, c) < UnitOf(k, FailedChild(log)))

Reverse(seq) == [x \in DOMAIN seq |-> seq[Len(seq) + 1 - x]]

HasRollbackLoop == kind \in {"compound", "literal_dict_generator", "literal_list_generator"}

\* C11 (as claimed): when the init of a compound or literal generator fails,
\* the children initialised before the failing child (element) are deinit-ed
\* in the reverse of the order they were initialised in.
C11_RollbackReversed ==
  (phase = "failed" /\ HasRollbackLoop)
  => RolledBack(kind, calllog) = Reverse(InitedBefore(kind, calllog))

\* C11 (amended): when the init of a compound or literal generator fails, the
\* children initialised before the failing child (element) are each deinit-ed
\* once, in the same order they were initialised in (first child first).
C11_RollbackForward ==
  (phase = "failed" /\ HasRollbackLoop)
  => RolledBack(kind, calllog) = InitedBefore(kind, calllog)

C11_Witness ==
  /\ phase = "failed"
  /\ kind = "compound"
  /\ Len(RolledBack(kind, calllog)) >= 2
  /\ RolledBack(kind, calllog)[1] = 1

\* C12: for compound, unary-op, binary-op and template nodes, as long as every
\* init succeeded: after init the counter is registered once and every child
\* is initialised once; the matching deinit unregisters exactly that counter
\* and deinit-s every child exactly once; after any number of such pairs no
\* registration and no initialised child is left.
C12_InitDeinitBalance ==
  (failed_inits = 0 /\ kind \in {"compound", "unary_op", "binary_op", "template"})
  => /\ phase = "inited" =>
          /\ registered = 1
          /\ \A c \in AllChildIds : live[c] = IF c \in ChildIds(kind, nchild) THEN 1 ELSE 0
     /\ phase = "deinited" =>
          /\ registered = 0 /\ reg_before = 1
          /\ \A c \in AllChildIds : live[c] = 0
          /\ \A c \in ChildIds(kind, nchild) : Deinits(calllog, c) = 1
          /\ Len(calllog) = nchild

C12_Witness ==
  /\ failed_inits = 0
  /\ kind = "compound" /\ nchild >= 2
  /\ phase = "deinited"
  /\ rounds >= 2

(* ------------------------------------------- literal generator: generate *)

\* Objects of the generator: who is the element whose expression made the
\* object, kind tells key / value / clone apart, str is a key's string.
G_NULL == [kind |-> "null", elem |-> 0, str |-> ""]

\* strings a key expression may evaluate to (two elements may agree on one)
KeyStrings == {"a", "b"}

KeyResults(e) == {G_NULL} \cup {[kind |-> "key", elem |-> e, str |-> k] : k \in KeyStrings}
ValueResults(e) == {G_NULL, [kind |-> "value", elem |-> e, str |-> ""]}

\* filterx_object_clone(): a new object holding a copy of the value
filterx_object_clone(value) == [value EXCEPT !.kind = "clone"]

\* filterx_object_unref() on the history of released objects; NULL is ignored
g_unref(log, o) == IF o = G_NULL THEN log ELSE Append(log, o)

\* filterx_object_set_subscript(fillable, key, &value) when it succeeds:
\* a NULL key appends to a list, a key of a dict replaces the entry of an
\* equal key or adds one
filterx_object_set_subscript(container, key, value) ==
  IF key # G_NULL /\ \E x \in DOMAIN container : container[x].key.str = key.str
  THEN [x \in DOMAIN container |->
          IF container[x].key.str = key.str THEN [key |-> key, value |-> value]
          ELSE container[x]]
  ELSE Append(container, [key |-> key, value |-> value])

mut_stored_value_never_cloned(elem, value) == value

\* the object handed to set_subscript: the clone of a cloneable element's value
stored_value(elem, value) ==
  IF elem.cloneable THEN filterx_object_clone(value) ELSE value

\* the unref that follows the clone
after_clone(elem, value, log) ==
  IF elem.cloneable THEN g_unref(log, value) ELSE log

\* What one iteration of the loop of _eval_elements() does for element e,
\* given what the key and value expressions return and whether
\* set_subscript succeeds: go_on is FALSE where the code returns FALSE.
_eval_element(elem, e, keyres, valres, success, st) ==
  LET key == IF elem.has_key THEN keyres ELSE G_NULL
      ev1 == IF elem.has_key
             THEN Append(st.evald, [what |-> "key", elem |-> e, ok |-> key # G_NULL])
             ELSE st.evald
  IN IF elem.has_key /\ key = G_NULL
     THEN [st EXCEPT !.evald = ev1, !.go_on = FALSE]
     ELSE LET ev2 == Append(ev1, [what |-> "value", elem |-> e, ok |-> valres # G_NULL])
          IN IF valres = G_NULL
             THEN [st EXCEPT !.evald = ev2, !.released = g_unref(st.released, key),
                             !.go_on = FALSE]
             ELSE LET value == stored_value(elem, valres)
                      rel1 == after_clone(elem, valres, st.released)
                  IN [evald |-> ev2,
                      calls |-> Append(st.calls, [elem |-> e, key |-> key, value |-> value,
                                                  evaluated |-> valres, ok |-> success]),
                      fillable |-> IF success
                                   THEN filterx_object_set_subscript(st.fillable, key, value)
                                   ELSE st.fillable,
                      released |-> g_unref(g_unref(rel1, key), value),
                      go_on |-> success]

mut_next_link_skips(e) == e + 2

\* link = link->next
next_link(e) == e + 1

ElementKinds(keyed) == {[has_key |-> keyed, cloneable |-> c] : c \in BOOLEAN}

\* the root generator and the two inner generators; a dict's elements have keys
GeneratorKinds == {"root", "inner_dict", "inner_list"}
KeyedKinds(k) == IF k = "root" THEN BOOLEAN ELSE {k = "inner_dict"}

InitGen ==
  /\ \E k \in GeneratorKinds :
       /\ inner = GeneratorOfKind(k)
       /\ \E keyed \in KeyedKinds(k) :
            elements \in SeqsUpTo(ElementKinds(keyed), MaxChildren)
  /\ g_pc = "idle" /\ link = 0 /\ g_ret = FALSE
  /\ fillable = <<>> /\ set_calls = <<>> /\ g_evald = <<>> /\ released = <<>>
  /\ walk = NoWalk

\* _inner_dict_generator_eval() / _inner_list_generator_eval() up to the call
\* of _eval_elements(): root_ok says that the root's fillable evaluates,
\* create_ok that filterx_object_create_dict / _list gives a container
inner_generator_enter(inn, root_ok, create_ok) ==
  IF ~root_ok THEN [inn EXCEPT !.ret = "null"]
  ELSE IF ~create_ok THEN [inn EXCEPT !.root_unrefs = @ + 1, !.ret = "null"]
  ELSE [inn EXCEPT !.root_unrefs = @ + 1, !.created = TRUE]

mut_inner_generator_leave_keeps_container(inn, ok) ==
  IF inn.kind = "root" THEN inn ELSE [inn EXCEPT !.ret = "fillable"]

\* the same functions after _eval_elements() returned ok: the container is
\* returned, or released and NULL returned; the root generator has no such step
inner_generator_leave(inn, ok) ==
  IF inn.kind = "root" THEN inn
  ELSE IF ok THEN [inn EXCEPT !.ret = "fillable"]
  ELSE [inn EXCEPT !.unrefs = @ + 1, !.ret = "null"]

\* _literal_generator_generate() is called on a fresh container
Generate ==
  /\ g_pc = "idle"
  /\ inner.kind = "root"
  /\ g_pc' = "loop"
  /\ link' = 1
  /\ UNCHANGED <<elements, g_ret, fillable, set_calls, g_evald, released, inner, walk>>

\* the eval of an inner generator is called
InnerEval ==
  /\ g_pc = "idle"
  /\ inner.kind # "root"
  /\ \E root_ok, create_ok \in BOOLEAN :
       /\ inner' = inner_generator_enter(inner, root_ok, create_ok)
       /\ IF inner'.created
          THEN g_pc' = "loop" /\ link' = 1
          ELSE g_pc' = "done" /\ UNCHANGED link
  /\ UNCHANGED <<elements, g_ret, fillable, set_calls, g_evald, released, walk>>

\* one iteration of the loop of _eval_elements()
EvalElement ==
  /\ g_pc = "loop"
  /\ link <= Len(elements)
  /\ \E keyres \in KeyResults(link), valres \in ValueResults(link), success \in BOOLEAN :
       LET out == _eval_element(elements[link], link, keyres, valres, success,
                                [evald |-> g_evald, calls |-> set_calls,
                                 fillable |-> fillable, released |-> released,
                                 go_on |-> TRUE])
       IN /\ g_evald' = out.evald
          /\ set_calls' = out.calls
          /\ fillable' = out.fillable
          /\ released' = out.released
          /\ IF out.go_on
             THEN /\ link' = next_link(link)
                  /\ UNCHANGED <<g_pc, g_ret, inner>>
             ELSE /\ g_pc' = "done"
                  /\ g_ret' = FALSE
                  /\ inner' = inner_generator_leave(inner, FALSE)
                  /\ UNCHANGED link
  /\ UNCHANGED <<elements, walk>>

\* the list is exhausted: return TRUE
ElementsDone ==
  /\ g_pc = "loop"
  /\ link > Len(elements)
  /\ g_pc' = "done"
  /\ g_ret' = TRUE
  /\ inner' = inner_generator_leave(inner, TRUE)
  /\ UNCHANGED <<elements, link, fillable, set_calls, g_evald, released, walk>>

\* the lengths a read of a GList pointer can give when the memory read is
\* not the elements field: any list, or a fault
WildReads ==
  {[crashed |-> TRUE, n |-> 0]} \cup {[crashed |-> FALSE, n |-> n] : n \in 0..MaxChildren}

\* the elements field read through a cast. FilterXExprLiteralGenerator keeps
\* elements after its FilterXExprGenerator head (a FilterXExpr and at least
\* the generate, create_container and fillable members), and
\* FilterXLiteralInnerGenerator after a FilterXExpr and the
\* root_literal_generator pointer: read through the struct the generator
\* is, the field is the element list; through the other struct the read is
\* of other memory
generator_elements(gkind, elems, as_inner) ==
  IF as_inner = (gkind # "root")
  THEN {[crashed |-> FALSE, n |-> Len(elems)]}
  ELSE WildReads

_filterx_expr_is_inner_dict_generator(gkind) == gkind = "inner_dict"
_filterx_expr_is_inner_list_generator(gkind) == gkind = "inner_list"

\* filterx_expr_literal_generator_len(): g_list_length() of the list read
filterx_expr_literal_generator_len(gkind, elems) ==
  {[called |-> TRUE, crashed |-> r.crashed, n |-> r.n, through |-> ~r.crashed] :
     r \in generator_elements(gkind, elems, _filterx_expr_is_inner_dict_generator(gkind))}

\* the foreach helpers callers may pick for a generator: the dict one when
\* filterx_expr_is_literal_dict_generator() holds, the list one when
\* filterx_expr_is_literal_list_generator() does; a root generator is either
ForeachHelpers(gkind) ==
  IF gkind = "root" THEN {"dict", "list"}
  ELSE IF _filterx_expr_is_inner_dict_generator(gkind) THEN {"dict"} ELSE {"list"}

\* filterx_literal_dict_generator_foreach() and
\* filterx_literal_list_generator_foreach(): func is called on the elements in
\* turn until it returns FALSE; accepted is the number of calls func
\* answers with TRUE; n counts the elements visited
filterx_literal_generator_foreach(helper, gkind, elems, accepted) ==
  LET as_inner == IF helper = "dict"
                  THEN _filterx_expr_is_inner_dict_generator(gkind)
                  ELSE _filterx_expr_is_inner_list_generator(gkind)
  IN {[called |-> TRUE, crashed |-> r.crashed,
       n |-> IF r.n <= accepted THEN r.n ELSE accepted + 1,
       through |-> ~r.crashed /\ r.n <= accepted] :
        r \in generator_elements(gkind, elems, as_inner)}

\* filterx_expr_literal_generator_len() is called on the generator
GeneratorLen ==
  /\ g_pc = "idle"
  /\ ~walk.len.called
  /\ \E r \in filterx_expr_literal_generator_len(inner.kind, elements) :
       walk' = [walk EXCEPT !.len = r]
  /\ UNCHANGED <<elements, g_pc, link, g_ret, fillable, set_calls, g_evald, released,
                 inner>>

\* one of the foreach helpers is called on the generator
GeneratorForeach ==
  /\ g_pc = "idle"
  /\ ~walk.each.called
  /\ \E helper \in ForeachHelpers(inner.kind), accepted \in 0..MaxChildren :
       \E r \in filterx_literal_generator_foreach(helper, inner.kind, elements, accepted) :
         walk' = [walk EXCEPT !.each = r]
  /\ UNCHANGED <<elements, g_pc, link, g_ret, fillable, set_calls, g_evald, released,
                 inner>>

GenInit == InitGen /\ IdleEval /\ IdleLife /\ IdleProc /\ IdleAffix /\ IdleRegexp /\ IdleNew /\ IdleTls /\ IdleVar /\ IdleRef /\ IdleScratch

GenNext ==
  \/ (Generate /\ UNCHANGED notGen)
  \/ (InnerEval /\ UNCHANGED notGen)
  \/ (EvalElement /\ UNCHANGED notGen)
  \/ (ElementsDone /\ UNCHANGED notGen)
  \/ (GeneratorLen /\ UNCHANGED notGen)
  \/ (GeneratorForeach /\ UNCHANGED notGen)

SpecGenerate == GenInit /\ [][GenNext]_vars

(* ------------------------------------------ literal generator: properties *)

Generated == g_pc = "done"

\* every key and value expression of every element was evaluated, with success
AllEvaluated ==
  /\ \A x \in DOMAIN g_evald : g_evald[x].ok
  /\ \A e \in DOMAIN elements :
       \E x \in DOMAIN g_evald : g_evald[x].what = "value" /\ g_evald[x].elem = e

IsDictGenerator == elements # <<>> /\ elements[1].has_key
IsListGenerator == elements # <<>> /\ ~elements[1].has_key

CallsInDeclarationOrder ==
  /\ Len(set_calls) = Len(elements)
  /\ \A x \in DOMAIN set_calls : set_calls[x].elem = x

\* the calls that wrote key k, in order
WritesOf(k) == SelectSeq(set_calls, LAMBDA c : c.ok /\ c.key.str = k)

KeysWritten == {set_calls[x].key.str : x \in DOMAIN set_calls}

\* C13 (as stated): when all N elements' key and value expressions evaluate
\* successfully, generate makes exactly N set_subscript calls in declaration
\* order, a list ends with N entries in that order and a dict ends with N
\* entries keyed by the evaluated keys.
C13_NEntries ==
  (Generated /\ AllEvaluated) =>
     /\ CallsInDeclarationOrder
     /\ Len(fillable) = Len(elements)
     /\ IsListGenerator => \A x \in DOMAIN fillable : fillable[x].value = set_calls[x].value
     /\ IsDictGenerator => \A x \in DOMAIN set_calls :
                             \E y \in DOMAIN fillable : fillable[y].key.str = set_calls[x].key.str

\* C13 (amended): when generate returns TRUE it has made exactly N
\* set_subscript calls in declaration order; a list then holds the N values
\* in that order, a dict holds one entry per distinct evaluated key, with the
\* value of the last element that evaluated to the key, hence N entries when
\* the evaluated keys are pairwise distinct.
C13_NCallsInOrder ==
  (Generated /\ g_ret) =>
     /\ AllEvaluated
     /\ CallsInDeclarationOrder
     /\ \A x \in DOMAIN set_calls : set_calls[x].ok
     /\ IsListGenerator =>
          /\ Len(fillable) = Len(elements)
          /\ \A x \in DOMAIN fillable : fillable[x].value = set_calls[x].value
     /\ IsDictGenerator =>
          /\ Len(fillable) = Cardinality(KeysWritten)
          /\ \A y \in DOMAIN fillable :
               LET w == WritesOf(fillable[y].key.str)
               IN w # <<>> /\ fillable[y].value = w[Len(w)].value
          /\ \A k \in KeysWritten : \E y \in DOMAIN fillable : fillable[y].key.str = k
          /\ Cardinality(KeysWritten) = Len(elements) => Len(fillable) = Len(elements)

C13_Witness ==
  /\ Generated /\ g_ret
  /\ IsDictGenerator
  /\ Len(elements) = 2
  /\ Len(fillable) = 2
  /\ fillable[1].key.str # fillable[2].key.str

\* how often object o was passed to filterx_object_unref()
ReleasedTimes(o) == Cardinality({x \in DOMAIN released : released[x] = o})

\* C14: a cloneable element hands set_subscript a clone of the object its
\* value expression returned, distinct from that object, which is released;
\* a non-cloneable element hands over the evaluated object itself.
C14_CloneableStoresClone ==
  \A x \in DOMAIN set_calls :
     LET c == set_calls[x]
     IN IF elements[c.elem].cloneable
        THEN /\ c.value = filterx_object_clone(c.evaluated)
             /\ c.value # c.evaluated
             /\ ReleasedTimes(c.evaluated) = 1
        ELSE c.value = c.evaluated

C14_Witness ==
  /\ Generated
  /\ Len(set_calls) = 2
  /\ elements[1].cloneable /\ ~elements[2].cloneable
  /\ set_calls[1].value.kind = "clone"
  /\ set_calls[2].value.kind = "value"

\* the loop of _eval_elements() returned FALSE at element link
FailedAtLink ==
  /\ Generated /\ ~g_ret
  /\ link \in DOMAIN elements

\* the key / value expression of element e was evaluated and gave an object
EvaluatedOk(what, e) ==
  \E x \in DOMAIN g_evald :
     g_evald[x].what = what /\ g_evald[x].elem = e /\ g_evald[x].ok

\* releases of the objects of the given kind that belong to element e
ReleasedOfKind(e, k) ==
  Cardinality({x \in DOMAIN released : released[x].elem = e /\ released[x].kind = k})

Once(holds) == IF holds THEN 1 ELSE 0

\* the container after the successful calls among the first n
RECURSIVE Replay(_)
Replay(n) ==
  IF n = 0 THEN <<>>
  ELSE IF set_calls[n].ok
       THEN filterx_object_set_subscript(Replay(n - 1), set_calls[n].key, set_calls[n].value)
       ELSE Replay(n - 1)

\* C34: if evaluating element i's key or value fails, or set_subscript fails
\* for it, generation returns failure at once, no element after i is
\* evaluated, element i's evaluated key / value objects are released exactly
\* once, an inner generator also releases the container it created and
\* returns null, and the entries already written are not rolled back.
C34_FailureHandling ==
  FailedAtLink =>
     /\ \A x \in DOMAIN g_evald : g_evald[x].elem <= link
     /\ \A x \in DOMAIN set_calls : set_calls[x].elem <= link
     /\ \/ ~g_evald[Len(g_evald)].ok
        \/ /\ set_calls # <<>>
           /\ set_calls[Len(set_calls)].elem = link
           /\ ~set_calls[Len(set_calls)].ok
     /\ \A x \in DOMAIN g_evald : g_evald[x].elem < link => g_evald[x].ok
     /\ ReleasedOfKind(link, "key") = Once(EvaluatedOk("key", link))
     /\ ReleasedOfKind(link, "value") = Once(EvaluatedOk("value", link))
     /\ ReleasedOfKind(link, "clone") =
          Once(EvaluatedOk("value", link) /\ elements[link].cloneable)
     /\ inner.kind = "root" => (inner.unrefs = 0 /\ inner.ret = "none")
     /\ inner.kind # "root" => (inner.unrefs = 1 /\ inner.ret = "null")
     /\ fillable = Replay(Len(set_calls))
     /\ Len(fillable) >= Once(\E x \in DOMAIN set_calls : set_calls[x].ok)

\* an inner dict generator whose second element's set_subscript failed
C34_Witness ==
  /\ FailedAtLink
  /\ inner.kind = "inner_dict"
  /\ link = 2
  /\ Len(set_calls) = 2 /\ set_calls[1].ok /\ ~set_calls[2].ok
  /\ Len(fillable) = 1
  /\ inner.unrefs = 1 /\ inner.ret = "null"

\* a root generator that failed at a value left the first entry in place
RootFailureReached ==
  /\ FailedAtLink /\ inner.kind = "root" /\ link = 2
  /\ Len(fillable) = 1 /\ ~g_evald[Len(g_evald)].ok

\* C39: filterx_expr_literal_generator_len returns the number of elements of
\* the generator it is given, for a root dict, a root list, an inner dict and
\* an inner list generator alike, reading the element list of that kind, and
\* agrees with the number of elements a foreach helper visits when it runs
\* through.
C39_LenIsElementCount ==
  walk.len.called =>
    /\ ~walk.len.crashed
    /\ walk.len.n = Len(elements)
    /\ ((walk.each.called /\ walk.each.through) => walk.each.n = walk.len.n)

\* the length is right for root generators and inner dict generators
LenIsElementCountButInnerList ==
  (walk.len.called /\ inner.kind # "inner_list") =>
    /\ ~walk.len.crashed
    /\ walk.len.n = Len(elements)
    /\ ((walk.each.called /\ walk.each.through) => walk.each.n = walk.len.n)

\* a foreach helper that runs through visits every element of the generator
\* it was picked for, whatever its kind
ForeachVisitsAll ==
  walk.each.called =>
    /\ ~walk.each.crashed
    /\ (walk.each.through => walk.each.n = Len(elements))

\* both were called on an inner list generator with elements
InnerListWalked ==
  /\ inner.kind = "inner_list" /\ Len(elements) > 0
  /\ walk.len.called /\ walk.each.called /\ walk.each.through

(* ------------------------------- startswith / endswith / includes: process *)

\* the bytes a string is made of: NUL, 'A', 'a'
Bytes == {0, 65, 97}

ByteStrings == SeqsUpTo(Bytes, MaxLen)

\* strlen(): the bytes before the first NUL; a GString's buffer carries a
\* terminating NUL after its len bytes
strlen(str) ==
  IF \E k \in DOMAIN str : str[k] = 0
  THEN (CHOOSE k \in DOMAIN str : str[k] = 0 /\ \A j \in 1..(k - 1) : str[j] # 0) - 1
  ELSE Len(str)

\* memcmp(a + off, b, n) == 0
memcmp_eq(a, off, b, n) == \A k \in 1..n : a[off + k] = b[k]

\* g_strstr_len(haystack, haystack_len, needle) != NULL, for haystack_len >= 0:
\* the needle's length is its strlen(); the scan moves on from a position only
\* while the byte there is not NUL
g_strstr_len(haystack, haystack_len, needle) ==
  LET needle_len == strlen(needle)
  IN IF needle_len = 0 THEN TRUE
     ELSE IF haystack_len < needle_len THEN FALSE
     ELSE \E p \in 0..(haystack_len - needle_len) :
             /\ \A q \in 1..(p + 1) : haystack[q] # 0
             /\ memcmp_eq(haystack, p, needle, needle_len)

_function_startswith_process(haystack, haystack_len, needle, needle_len) ==
  IF needle_len > haystack_len THEN FALSE
  ELSE memcmp_eq(haystack, 0, needle, needle_len)

_function_endswith_process(haystack, haystack_len, needle, needle_len) ==
  IF needle_len > haystack_len THEN FALSE
  ELSE memcmp_eq(haystack, haystack_len - needle_len, needle, needle_len)

_function_includes_process(haystack, haystack_len, needle, needle_len) ==
  IF needle_len > haystack_len THEN FALSE
  ELSE g_strstr_len(haystack, haystack_len, needle)

ProcessFuncs == {"startswith", "endswith", "includes"}

\* self->process(haystack, haystack_len, needle, needle_len)
process(which, haystack, needle) ==
  CASE which = "startswith" ->
         _function_startswith_process(haystack, Len(haystack), needle, Len(needle))
    [] which = "endswith" ->
         _function_endswith_process(haystack, Len(haystack), needle, Len(needle))
    [] which = "includes" ->
         _function_includes_process(haystack, Len(haystack), needle, Len(needle))

InitProc ==
  /\ p_haystack \in ByteStrings
  /\ p_needle \in ByteStrings
  /\ p_which = "none"
  /\ p_out = FALSE

StartswithProcess ==
  /\ p_which = "none"
  /\ p_which' = "startswith"
  /\ p_out' = _function_startswith_process(p_haystack, Len(p_haystack), p_needle, Len(p_needle))
  /\ UNCHANGED <<p_haystack, p_needle>>

EndswithProcess ==
  /\ p_which = "none"
  /\ p_which' = "endswith"
  /\ p_out' = _function_endswith_process(p_haystack, Len(p_haystack), p_needle, Len(p_needle))
  /\ UNCHANGED <<p_haystack, p_needle>>

IncludesProcess ==
  /\ p_which = "none"
  /\ p_which' = "includes"
  /\ p_out' = _function_includes_process(p_haystack, Len(p_haystack), p_needle, Len(p_needle))
  /\ UNCHANGED <<p_haystack, p_needle>>

ProcInit == InitProc /\ IdleEval /\ IdleLife /\ IdleGen /\ IdleAffix /\ IdleRegexp /\ IdleNew /\ IdleTls /\ IdleVar /\ IdleRef /\ IdleScratch

ProcNext ==
  \/ (StartswithProcess /\ UNCHANGED notProc)
  \/ (EndswithProcess /\ UNCHANGED notProc)
  \/ (IncludesProcess /\ UNCHANGED notProc)

SpecProcess == ProcInit /\ [][ProcNext]_vars

(* --------------------------------------------------- process: properties *)

\* the byte-wise reference predicates, on exactly Len(needle) bytes
IsPrefix(needle, haystack) ==
  Len(needle) <= Len(haystack) /\ SubSeq(haystack, 1, Len(needle)) = needle

IsSuffix(needle, haystack) ==
  /\ Len(needle) <= Len(haystack)
  /\ SubSeq(haystack, Len(haystack) - Len(needle) + 1, Len(haystack)) = needle

IsSubstring(needle, haystack) ==
  \E p \in 0..(Len(haystack) - Len(needle)) :
     SubSeq(haystack, p + 1, p + Len(needle)) = needle

Reference(which, haystack, needle) ==
  CASE which = "startswith" -> IsPrefix(needle, haystack)
    [] which = "endswith" -> IsSuffix(needle, haystack)
    [] which = "includes" -> IsSubstring(needle, haystack)

\* C17: each of the three process functions returns what its byte-wise
\* reference predicate (prefix, suffix, substring, on exactly needle_len
\* bytes) says; a needle longer than the haystack gives false and an empty
\* needle gives true.
C17_ProcessIsReference ==
  p_which # "none" =>
     /\ p_out = Reference(p_which, p_haystack, p_needle)
     /\ Len(p_needle) > Len(p_haystack) => p_out = FALSE
     /\ p_needle = <<>> => p_out = TRUE

\* startswith and endswith alone do agree with their references
PrefixSuffixAreReference ==
  p_which \in {"startswith", "endswith"} =>
     p_out = Reference(p_which, p_haystack, p_needle)

(* ------------------------------------ startswith / endswith / includes: eval *)

\* the strings the haystack and the needles are rendered to: "", "a", "A", "aA"
TextStrings == {<<>>, <<97>>, <<65>>, <<97, 65>>}

\* in place of a string: the expression's eval returned NULL
FAILED == <<-1>>

EvalResults == TextStrings \cup {FAILED}

\* g_utf8_casefold() on these strings: 'A' becomes 'a'
g_utf8_casefold(str) == [k \in DOMAIN str |-> IF str[k] = 65 THEN 97 ELSE str[k]]

\* _expr_format(expr, ignore_case), val being what expr evaluates to
_expr_format(val, ic) ==
  IF val = FAILED THEN FAILED
  ELSE IF ic THEN g_utf8_casefold(val) ELSE val

\* the string _obj_format(obj, ignore_case) returns (it also releases obj)
_obj_format(str, ic) == IF ic THEN g_utf8_casefold(str) ELSE str

\* the needle argument: a literal, a literal list generator whose elements
\* are literals (of value val) or other expressions, or any other expression
LiteralElems == {[literal |-> TRUE, val |-> v] : v \in TextStrings}
ListElems == LiteralElems \cup {[literal |-> FALSE, val |-> <<>>]}

NeedleExprs ==
  {[kind |-> "literal", elems |-> <<el>>] : el \in LiteralElems}
  \cup {[kind |-> "literal_list", elems |-> es] : es \in SeqsUpTo(ListElems, MaxNeedles)}
  \cup {[kind |-> "expr", elems |-> <<>>]}

\* _string_with_cache_fill_cache(): a literal is evaluated and formatted, the
\* string is not kept in str_value
_string_with_cache_fill_cache(entry, ic) ==
  IF ~entry.literal THEN [ok |-> TRUE, entry |-> entry, evaluated |-> FALSE]
  ELSE [ok |-> _expr_format(entry.val, ic) # FAILED, entry |-> entry, evaluated |-> TRUE]

\* _string_with_cache_new(expr, ignore_case): g_new0() leaves str_value NULL
_string_with_cache_new(el, idx, ic) ==
  _string_with_cache_fill_cache([expr |-> idx, literal |-> el.literal, val |-> el.val,
                                 str_set |-> FALSE, str_value |-> <<>>], ic)

\* _expr_affix_init_needle(): one entry for a literal, one entry per element
\* of a literal list generator, none for another expression
_expr_affix_init_needle(needle, ic) ==
  IF needle.kind \in {"literal", "literal_list"}
  THEN [cached |-> [k \in DOMAIN needle.elems |->
                       _string_with_cache_new(needle.elems[k], k, ic).entry],
        evals |-> SelectSeq([k \in DOMAIN needle.elems |-> k],
                            LAMBDA k : _string_with_cache_new(needle.elems[k], k, ic).evaluated)]
  ELSE [cached |-> <<>>, evals |-> <<>>]

\* _string_with_cache_get_string_value(): the stored string if there is one,
\* else the expression is evaluated and formatted
_string_with_cache_get_string_value(entry, ic, val) ==
  IF entry.str_set
  THEN [str |-> entry.str_value, evaluated |-> FALSE]
  ELSE [str |-> _expr_format(val, ic), evaluated |-> TRUE]

mut_loop_ignores_match(k, len, matches) == k <= len

\* i < len && !matches
loop_goes_on(k, len, matches) == k <= len /\ ~matches

RECURSIVE cached_loop(_, _, _, _, _, _)
\* the loop over self->needle.cached_strings, from entry k on
cached_loop(which, ic, haystack, cached, vals, st) ==
  IF ~loop_goes_on(st.k, Len(cached), st.matches) THEN st
  ELSE LET got == _string_with_cache_get_string_value(cached[st.k], ic, vals[st.k])
           ev == IF got.evaluated THEN Append(st.evals, st.k) ELSE st.evals
       IN IF got.str = FAILED
          THEN [st EXCEPT !.evals = ev, !.failed = TRUE]
          ELSE cached_loop(which, ic, haystack, cached, vals,
                           [k |-> st.k + 1,
                            matches |-> process(which, haystack, got.str),
                            compared |-> Append(st.compared, st.k),
                            evals |-> ev,
                            failed |-> FALSE])

RECURSIVE needle_loop(_, _, _, _)
\* the loop over needle_list, from needle k on
needle_loop(which, haystack, needles, st) ==
  IF ~loop_goes_on(st.k, Len(needles), st.matches) THEN st
  ELSE needle_loop(which, haystack, needles,
                   [st EXCEPT !.k = st.k + 1,
                              !.matches = process(which, haystack, needles[st.k]),
                              !.compared = Append(st.compared, st.k)])

LoopStart == [k |-> 1, matches |-> FALSE, compared |-> <<>>, evals |-> <<>>, failed |-> FALSE]

\* what a needle expression may evaluate to
NeedleObjects ==
  {NoObject, [type |-> "other", strs |-> <<>>]}
  \cup {[type |-> "string", strs |-> <<v>>] : v \in TextStrings}
  \cup {[type |-> "list", strs |-> l] : l \in SeqsUpTo(TextStrings, MaxNeedles)}

\* _expr_affix_eval_needle(): needles is the array returned, null says that
\* NULL is returned instead; unrefs lists the objects released (0: needle_obj,
\* k: the k-th element fetched from it), free_null that g_ptr_array_free()
\* was handed the NULL array
_expr_affix_eval_needle(obj, ic) ==
  CASE obj.type = "null" ->
         [null |-> TRUE, needles |-> <<>>, unrefs |-> <<>>, free_null |-> FALSE]
    [] obj.type = "string" ->
         [null |-> FALSE, needles |-> <<_obj_format(obj.strs[1], ic)>>,
          unrefs |-> <<0, 0>>, free_null |-> FALSE]
    [] obj.type = "list" /\ Len(obj.strs) = 0 ->
         [null |-> TRUE, needles |-> <<>>, unrefs |-> <<0>>, free_null |-> FALSE]
    [] obj.type = "list" /\ Len(obj.strs) # 0 ->
         [null |-> FALSE,
          needles |-> [k \in DOMAIN obj.strs |-> _obj_format(obj.strs[k], ic)],
          unrefs |-> [x \in 1..(2 * Len(obj.strs) + 1) |->
                        IF x = 2 * Len(obj.strs) + 1 THEN 0 ELSE (x + 1) \div 2],
          free_null |-> FALSE]
    [] OTHER ->
         [null |-> TRUE, needles |-> <<>>, unrefs |-> <<>>, free_null |-> TRUE]

\* _expr_affix_eval(): hay is what the haystack evaluates to, vals what the
\* cached entries' expressions evaluate to, obj what self->needle.expr does
_expr_affix_eval(which, ic, cached, hay, vals, obj) ==
  LET haystack_str == _expr_format(hay, ic)
      none == [result |-> "null", haystack |-> haystack_str, needles |-> <<>>,
               obj |-> NoObject, compared |-> <<>>, evals |-> <<>>, unrefs |-> <<>>]
  IN IF haystack_str = FAILED THEN none
     ELSE IF Len(cached) # 0
     THEN LET r == cached_loop(which, ic, haystack_str, cached, vals, LoopStart)
          IN [none EXCEPT !.result = IF r.failed THEN "null"
                                     ELSE IF r.matches THEN "true" ELSE "false",
                          !.needles = [k \in DOMAIN vals |-> _expr_format(vals[k], ic)],
                          !.compared = r.compared,
                          !.evals = r.evals]
     ELSE LET n == _expr_affix_eval_needle(obj, ic)
              r == needle_loop(which, haystack_str, n.needles, LoopStart)
          IN [none EXCEPT !.result = IF n.null THEN "null"
                                     ELSE IF r.matches THEN "true" ELSE "false",
                          !.needles = n.needles,
                          !.obj = obj,
                          !.compared = IF n.null THEN <<>> ELSE r.compared,
                          !.evals = <<0>>,
                          !.unrefs = n.unrefs]

\* some object is released more often than the one reference eval gave
ReleasedTwice(unrefs) ==
  \E x, y \in DOMAIN unrefs : x # y /\ unrefs[x] = unrefs[y]

InitAffix ==
  /\ a_process = "none" /\ ignore_case = FALSE
  /\ needle_expr = [kind |-> "none", elems |-> <<>>]
  /\ cached_strings = <<>> /\ a_pc = "new" /\ a_result = "null"
  /\ a_haystack = <<>> /\ a_needles = <<>> /\ needle_obj = NoObject
  /\ compared = <<>> /\ needle_evals = <<>> /\ ctor_evals = <<>> /\ a_unrefs = <<>>

\* _function_affix_new(): the constructor of the three functions
AffixNew ==
  /\ a_pc = "new"
  /\ \E which \in ProcessFuncs, ic \in BOOLEAN, needle \in NeedleExprs :
       LET c == _expr_affix_init_needle(needle, ic)
       IN /\ a_process' = which
          /\ ignore_case' = ic
          /\ needle_expr' = needle
          /\ cached_strings' = c.cached
          /\ ctor_evals' = c.evals
  /\ a_pc' = "ready"
  /\ UNCHANGED <<a_result, a_haystack, a_needles, needle_obj, compared, needle_evals,
                 a_unrefs, scratch>>

\* what the cached entries' expressions may evaluate to: a literal to its value
CachedValues ==
  {v \in [DOMAIN cached_strings -> EvalResults] :
     \A k \in DOMAIN cached_strings : cached_strings[k].literal => v[k] = cached_strings[k].val}

\* what self->needle.expr may evaluate to: an empty literal list generator
\* to an empty list
NeedleExprValues ==
  IF needle_expr.kind = "literal_list"
  THEN {[type |-> "list", strs |-> <<>>]}
  ELSE NeedleObjects

\* _expr_affix_eval() is called. Releasing an object twice is undefined: the
\* call may still return, or the process dies. The call changes nothing in
\* self, so a second call on the node does what a first call can do: one
\* call per constructed node is followed.
AffixEval ==
  /\ a_pc = "ready"
  /\ \E hay \in EvalResults :
       \E vals \in (IF cached_strings # <<>> THEN CachedValues ELSE {<<>>}),
          obj \in (IF cached_strings # <<>> THEN {NoObject} ELSE NeedleExprValues) :
            LET out == _expr_affix_eval(a_process, ignore_case, cached_strings, hay, vals, obj)
            IN /\ a_result' = out.result
               /\ a_haystack' = out.haystack
               /\ a_needles' = out.needles
               /\ needle_obj' = out.obj
               /\ compared' = out.compared
               /\ needle_evals' = out.evals
               /\ a_unrefs' = out.unrefs
               /\ \/ /\ a_pc' = "done"
                     /\ scratch' = affix_eval_scratch(scratch, TRUE)
                  \/ /\ ReleasedTwice(out.unrefs)
                     /\ a_pc' = "abort"
                     /\ scratch' = affix_eval_scratch(scratch, FALSE)
  /\ UNCHANGED <<a_process, ignore_case, needle_expr, cached_strings, ctor_evals>>

AffixInit == InitAffix /\ InitScratch /\ IdleEval /\ IdleLife /\ IdleGen /\ IdleProc /\ IdleRegexp /\ IdleNew /\ IdleTls /\ IdleVar /\ IdleRef

AffixNext ==
  \/ (AffixNew /\ UNCHANGED notAffix)
  \/ (AffixEval /\ UNCHANGED notAffix)

SpecAffix == AffixInit /\ [][AffixNext]_vars

\* a needle that is not cached was evaluated to an object
NeedleEvaluated ==
  /\ a_pc \in {"done", "abort"}
  /\ a_haystack # FAILED
  /\ cached_strings = <<>>
  /\ needle_obj # NoObject

\* releases of an object in the last eval (0: the needle object, k: its
\* k-th element)
Releases(x) == Cardinality({n \in DOMAIN a_unrefs : a_unrefs[n] = x})

\* the list elements the eval fetched from the needle object
FetchedElements == IF needle_obj.type = "list" THEN DOMAIN needle_obj.strs ELSE {}

\* C33: when a needle that is not cached is evaluated, the needle object and
\* every list element fetched from it are released exactly once on every
\* path (string, non-empty list, empty list, another type), and for another
\* type the call returns null without freeing an unallocated needle array.
C33_NeedleReleasedOnce ==
  NeedleEvaluated =>
     /\ Releases(0) = 1
     /\ \A k \in FetchedElements : Releases(k) = 1
     /\ needle_obj.type = "other" =>
          /\ a_result = "null"
          /\ ~_expr_affix_eval_needle(needle_obj, ignore_case).free_null

\* the one path on which the balance holds: the empty list
EmptyListReleasedOnce ==
  (NeedleEvaluated /\ needle_obj.type = "list" /\ needle_obj.strs = <<>>) =>
     Releases(0) = 1

\* One thread with its scratch buffers evaluates a compound or an affix
\* function.
ScratchInit == Init \/ AffixInit

ScratchNext == Next \/ AffixNext

SpecScratch == ScratchInit /\ [][ScratchNext]_vars

\* C32: every scratch mark taken by the affix function's eval and by the
\* compound's per-child trace/debug step is reclaimed exactly once before
\* the function returns, on every exit path, so the mark depth after the
\* call equals the depth before it.
C32_ScratchBracketed ==
  /\ (pc # "abort" /\ a_pc # "abort") =>
       /\ scratch.depth = scratch.before
       /\ scratch.reclaims = scratch.marks
  /\ a_pc = "done" => scratch.marks = 1

\* the affix eval returned null after the haystack was formatted (the needle
\* failed), entered with a mark already outstanding
C32_Witness ==
  /\ a_pc = "done"
  /\ a_result = "null"
  /\ a_haystack # FAILED
  /\ scratch.before = 1
  /\ scratch.depth = 1
  /\ scratch.marks = 1 /\ scratch.reclaims = 1

\* a compound whose children were logged twice returned with the depth restored
CompoundScratchReached ==
  pc = "done" /\ scratch.marks = 2 /\ scratch.reclaims = 2 /\ scratch.depth = scratch.before

(* ------------------------------------------------ affix eval: properties *)

AffixReturned == a_pc = "done"

\* the haystack and a non-empty set of needles all evaluated successfully
NeedleSetOk ==
  /\ a_haystack # FAILED
  /\ a_needles # <<>>
  /\ \A k \in DOMAIN a_needles : a_needles[k] # FAILED

Satisfies(k) == process(a_process, a_haystack, a_needles[k])

\* the needles up to the first one satisfying the predicate, or all of them
ScannedNeedles ==
  IF \E k \in DOMAIN a_needles : Satisfies(k)
  THEN 1..(CHOOSE k \in DOMAIN a_needles :
              Satisfies(k) /\ \A j \in 1..(k - 1) : ~Satisfies(j))
  ELSE DOMAIN a_needles

\* C15: with a non-empty needle set and everything evaluating successfully,
\* the affix function returns true iff some needle satisfies the predicate
\* against the haystack, and it compares the needles in order up to the first
\* one that does and no further.
C15_FirstMatchWins ==
  (AffixReturned /\ NeedleSetOk) =>
     /\ a_result = IF \E k \in DOMAIN a_needles : Satisfies(k) THEN "true" ELSE "false"
     /\ compared = [x \in ScannedNeedles |-> x]

C15_Witness ==
  /\ AffixReturned /\ NeedleSetOk
  /\ Len(a_needles) = 2
  /\ Satisfies(1) /\ ~Satisfies(2)
  /\ compared = <<1>>
  /\ a_result = "true"

\* the needle is a literal [] or evaluated to an empty list
EmptyListNeedle ==
  \/ needle_expr.kind = "literal_list" /\ needle_expr.elems = <<>>
  \/ needle_obj.type = "list" /\ needle_obj.strs = <<>>

\* C16: an affix function whose needle is an empty list returns boolean
\* false, not null.
C16_EmptyListIsFalse ==
  (AffixReturned /\ a_haystack # FAILED /\ EmptyListNeedle) => a_result = "false"

TimesIn(seq, v) == Cardinality({x \in DOMAIN seq : seq[x] = v})

\* C18: a literal needle's formatted string is stored when the function is
\* constructed and eval uses it without evaluating the literal again; a
\* needle that is not a literal is evaluated exactly once per call.
C18_LiteralNeedleCached ==
  (AffixReturned /\ a_haystack # FAILED) =>
     /\ \A k \in DOMAIN cached_strings :
          cached_strings[k].literal =>
             /\ TimesIn(ctor_evals, k) = 1
             /\ cached_strings[k].str_set
             /\ cached_strings[k].str_value = _expr_format(cached_strings[k].val, ignore_case)
             /\ TimesIn(needle_evals, k) = 0
     /\ \A x \in DOMAIN compared :
          (cached_strings # <<>> /\ ~cached_strings[compared[x]].literal) =>
             TimesIn(needle_evals, compared[x]) = 1
     /\ needle_expr.kind = "expr" => needle_evals = <<0>>

\* what does hold: whatever the needle, each needle compared was evaluated
\* exactly once by the call
EachNeedleEvaluatedOnce ==
  (AffixReturned /\ a_haystack # FAILED) =>
     /\ \A x \in DOMAIN compared :
          cached_strings # <<>> => TimesIn(needle_evals, compared[x]) = 1
     /\ cached_strings = <<>> => needle_evals = <<0>>

(* ------------------------------------------------- regexp_search: generate *)

Digits == <<"0", "1", "2", "3", "4", "5", "6", "7", "8", "9">>

RECURSIVE g_snprintf_u(_)
\* g_snprintf(num_str_buf, ..., "%u", n): n in decimal
g_snprintf_u(n) ==
  IF n < 10 THEN Digits[n + 1]
  ELSE g_snprintf_u(n \div 10) \o Digits[(n % 10) + 1]

mut_namedgroup_name_is_number(n) == g_snprintf_u(n)

\* the name of capture group n in the pattern's name table, if it has one
namedgroup_name(n) == "g" \o g_snprintf_u(n)

\* filterx_string_new() of a key and of the substring matched by group n;
\* text is "" for a substring of length 0
rx_key(n, str) == [kind |-> "key", elem |-> n, str |-> str]
rx_value(n, text) == [kind |-> "value", elem |-> n, str |-> text]

\* pcre2_get_ovector_count(): one pair per group of the pattern
num_matches_of(pat) == Len(pat) + 1

mut_skip_group_zero_always(num_matches, n, keep_zero) == n = 0 /\ ~keep_zero

\* num_matches > 1 && i==0 && !check_flag(state->flags, KEEP_GRP_ZERO)
skip_group_zero(num_matches, n, keep_zero) == num_matches > 1 /\ n = 0 /\ ~keep_zero

\* filterx_object_get_subscript(fillable, key): the value stored under key
filterx_object_get_subscript(entries, key) ==
  IF \E x \in DOMAIN entries : entries[x].key.str = key.str
  THEN entries[CHOOSE x \in DOMAIN entries : entries[x].key.str = key.str].value
  ELSE G_NULL

\* filterx_object_unset_key(fillable, key): the entries left
filterx_object_unset_key(entries, key) ==
  SelectSeq(entries, LAMBDA en : en.key.str # key.str)

RECURSIVE list_loop(_, _, _, _)
\* the loop of _store_matches_to_list() from group st.i on; the fail_at-th
\* filterx_list_append() fails. A group that did not take part has offsets
\* PCRE2_UNSET, which are negative as gint.
list_loop(fl, ovector, fail_at, st) ==
  IF st.i >= Len(ovector) THEN st
  ELSE IF skip_group_zero(Len(ovector), st.i, fl.keep_zero) \/ ~ovector[st.i + 1]
  THEN list_loop(fl, ovector, fail_at, [st EXCEPT !.i = st.i + 1])
  ELSE IF st.calls + 1 = fail_at
  THEN [st EXCEPT !.calls = st.calls + 1, !.ok = FALSE]
  ELSE list_loop(fl, ovector, fail_at,
                 [st EXCEPT !.i = st.i + 1,
                            !.calls = st.calls + 1,
                            !.stored = Append(st.stored, st.i),
                            !.entries = filterx_object_set_subscript(
                                           st.entries, G_NULL, rx_value(st.i, "match"))])

RECURSIVE dict_store_loop(_, _, _, _)
\* the first loop of _store_matches_to_dict(). The offsets are PCRE2_SIZE,
\* unsigned, so the test for negative offsets never holds: a group that did
\* not take part is stored with a value of length 0.
dict_store_loop(fl, ovector, fail_at, st) ==
  IF st.i >= Len(ovector) THEN st
  ELSE IF skip_group_zero(Len(ovector), st.i, fl.keep_zero)
  THEN dict_store_loop(fl, ovector, fail_at, [st EXCEPT !.i = st.i + 1])
  ELSE IF st.calls + 1 = fail_at
  THEN [st EXCEPT !.calls = st.calls + 1, !.ok = FALSE]
  ELSE dict_store_loop(fl, ovector, fail_at,
                       [st EXCEPT !.i = st.i + 1,
                                  !.calls = st.calls + 1,
                                  !.stored = Append(st.stored, st.i),
                                  !.entries = filterx_object_set_subscript(
                                     st.entries,
                                     rx_key(st.i, g_snprintf_u(st.i)),
                                     rx_value(st.i, IF ovector[st.i + 1] THEN "match" ELSE ""))])

RECURSIVE dict_rename_loop(_, _, _, _)
\* the second loop of _store_matches_to_dict(), over the groups of the
\* name table from group st.i on
dict_rename_loop(pat, ovector, fail_at, st) ==
  IF st.i >= Len(ovector) THEN st
  ELSE IF ~pat[st.i]
  THEN dict_rename_loop(pat, ovector, fail_at, [st EXCEPT !.i = st.i + 1])
  ELSE LET num_key == rx_key(st.i, g_snprintf_u(st.i))
           key == rx_key(st.i, namedgroup_name(st.i))
           value == filterx_object_get_subscript(st.entries, num_key)
           success == st.calls + 1 # fail_at
           set == IF success THEN filterx_object_set_subscript(st.entries, key, value)
                  ELSE st.entries
           had_key == \E x \in DOMAIN set : set[x].key.str = num_key.str
           after == [st EXCEPT !.i = st.i + 1,
                               !.calls = st.calls + 1,
                               !.entries = filterx_object_unset_key(set, num_key),
                               !.ok = success,
                               !.abort = ~had_key]
       IN IF ~had_key \/ ~success THEN after
          ELSE dict_rename_loop(pat, ovector, fail_at, after)

StoreStart(entries) ==
  [i |-> 0, calls |-> 0, stored |-> <<>>, entries |-> entries, ok |-> TRUE, abort |-> FALSE,
   cleanups |-> 0]

_store_matches_to_list(fl, ovector, entries, fail_at) ==
  list_loop(fl, ovector, fail_at, StoreStart(entries))

_store_matches_to_dict(pat, fl, ovector, entries, fail_at) ==
  LET first == dict_store_loop(fl, ovector, fail_at, StoreStart(entries))
  IN IF ~first.ok THEN first
     ELSE dict_rename_loop(pat, ovector, fail_at, [first EXCEPT !.i = 1])

\* _store_matches(): by the type of the fillable
_store_matches(pat, fl, ovector, container, fail_at) ==
  IF container.type = "list"
  THEN _store_matches_to_list(fl, ovector, container.entries, fail_at)
  ELSE IF container.type = "dict"
  THEN _store_matches_to_dict(pat, fl, ovector, container.entries, fail_at)
  ELSE [StoreStart(container.entries) EXCEPT !.ok = FALSE]

mut_create_container_always_dict(fl) == [type |-> "dict", entries |-> <<>>]

\* _regexp_search_generator_create_container()
_regexp_search_generator_create_container(fl) ==
  IF fl.list_mode THEN [type |-> "list", entries |-> <<>>]
  ELSE [type |-> "dict", entries |-> <<>>]

\* what filterx_regexp_match_eval() leaves: its return value, whether
\* state.match_data is set, and for a match which groups took part in it
\* (group 0 always does)
MatchStates(pat) ==
  {[matched |-> FALSE, match_data |-> d, ovector |-> <<>>] : d \in BOOLEAN}
  \cup {[matched |-> TRUE, match_data |-> FALSE, ovector |-> <<>>]}
  \cup {[matched |-> TRUE, match_data |-> TRUE, ovector |-> ov] :
         ov \in {o \in [1..num_matches_of(pat) -> BOOLEAN] : o[1]}}

\* _regexp_search_generator_generate(): every path leaves through the exit
\* label, where the match state is cleaned up
_regexp_search_generator_generate(pat, fl, container, m, fail_at) ==
  LET res == IF ~m.matched THEN [StoreStart(container.entries) EXCEPT !.ok = TRUE]
             ELSE IF ~m.match_data THEN [StoreStart(container.entries) EXCEPT !.ok = FALSE]
             ELSE _store_matches(pat, fl, m.ovector, container, fail_at)
  IN [res EXCEPT !.cleanups = res.cleanups + 1]

\* filterx_generator_function_regexp_search_new() has built the node
InitRegexp ==
  /\ flags \in [keep_zero : BOOLEAN, list_mode : BOOLEAN]
  /\ pattern \in SeqsUpTo(BOOLEAN, MaxGroups - 1)
  /\ r_pc = "new"
  /\ r_container = [type |-> "none", entries |-> <<>>]
  /\ r_ret = FALSE
  /\ match = [matched |-> FALSE, match_data |-> FALSE, ovector |-> <<>>]
  /\ stored = <<>>
  /\ r_cleanups = 0

\* the generator's eval makes the container to fill
CreateContainer ==
  /\ r_pc = "new"
  /\ r_container' = _regexp_search_generator_create_container(flags)
  /\ r_pc' = "created"
  /\ UNCHANGED <<flags, pattern, r_ret, match, stored, r_cleanups>>

\* generate() is called on the container
RegexpGenerate ==
  /\ r_pc = "created"
  /\ \E m \in MatchStates(pattern), fail_at \in 0..MaxGroups :
       LET out == _regexp_search_generator_generate(pattern, flags, r_container, m, fail_at)
       IN /\ match' = m
          /\ r_container' = [r_container EXCEPT !.entries = out.entries]
          /\ stored' = out.stored
          /\ r_ret' = out.ok
          /\ r_cleanups' = out.cleanups
          /\ r_pc' = IF out.abort THEN "abort" ELSE "done"
  /\ UNCHANGED <<flags, pattern>>

RegexpInit == InitRegexp /\ IdleEval /\ IdleLife /\ IdleGen /\ IdleProc /\ IdleAffix /\ IdleNew /\ IdleTls /\ IdleVar /\ IdleRef /\ IdleScratch

RegexpNext ==
  \/ (CreateContainer /\ UNCHANGED notRegexp)
  \/ (RegexpGenerate /\ UNCHANGED notRegexp)

SpecRegexp == RegexpInit /\ [][RegexpNext]_vars

(* --------------------------------------------- regexp_search: properties *)

\* generate returned success after a match
MatchStored == r_pc = "done" /\ r_ret /\ match.matched /\ match.match_data

\* the result holds the whole match
GroupZeroStored ==
  \E x \in DOMAIN r_container.entries : r_container.entries[x].value.elem = 0

\* C19 (as stated): after a successful match group 0 is in the result only
\* when keep_zero is set and the match has more than one group; with
\* keep_zero unset, or with group 0 the only group, it is absent.
C19_GroupZeroOnlyIfKept ==
  MatchStored =>
     (GroupZeroStored <=> (flags.keep_zero /\ num_matches_of(pattern) > 1))

\* C19 (amended): after a successful match group 0 is absent from the result
\* exactly when keep_zero is unset and the match has more than one group;
\* when group 0 is the only group it is stored whatever keep_zero is.
C19_GroupZeroElided ==
  MatchStored =>
     (GroupZeroStored <=> (flags.keep_zero \/ num_matches_of(pattern) = 1))

C19_Witness ==
  /\ MatchStored
  /\ ~flags.keep_zero
  /\ num_matches_of(pattern) = 1
  /\ GroupZeroStored

Unnamed(n) == n = 0 \/ ~pattern[n]

\* C20: with list_mode the container is a list and the stored groups are
\* appended in increasing group index; without it the container is a dict
\* and each stored unnamed group i is keyed by the decimal string of i.
C20_ContainerShape ==
  r_pc \in {"created", "done"} =>
     LET en == r_container.entries
     IN IF flags.list_mode
        THEN /\ r_container.type = "list"
             /\ [x \in DOMAIN en |-> en[x].value.elem] = stored
             /\ \A x \in DOMAIN en : en[x].key = G_NULL
             /\ \A x, y \in DOMAIN en : x < y => en[x].value.elem < en[y].value.elem
        ELSE /\ r_container.type = "dict"
             /\ \A x \in DOMAIN en :
                  Unnamed(en[x].value.elem) => en[x].key.str = Digits[en[x].value.elem + 1]
             /\ \A x \in DOMAIN stored :
                  Unnamed(stored[x]) =>
                     \E y \in DOMAIN en : /\ en[y].key.str = Digits[stored[x] + 1]
                                          /\ en[y].value.elem = stored[x]

C20_Witness ==
  /\ MatchStored
  /\ flags.list_mode
  /\ r_container.type = "list"
  /\ Len(r_container.entries) = 2
  /\ r_container.entries[1].value.elem = 1
  /\ r_container.entries[2].value.elem = 2

\* the entries of the container stored under key string k
EntriesUnder(k) ==
  {x \in DOMAIN r_container.entries : r_container.entries[x].key.str = k}

NoMatch == ~match.matched /\ match.match_data

\* matching failed: no match data was produced
MatchError == ~match.match_data

\* C22: when the pattern does not match, generate succeeds and leaves the
\* container empty; when matching errors (no match data), generate fails;
\* the match state is cleaned up on every path.
C22_MatchOutcome ==
  r_pc = "done" =>
     /\ NoMatch => (r_ret /\ r_container.entries = <<>>)
     /\ MatchError => ~r_ret
     /\ r_cleanups = 1

\* what does hold: an error is reported only if the match is reported too
ErrorSeenOnlyIfMatched ==
  r_pc = "done" =>
     /\ ~match.matched => (r_ret /\ r_container.entries = <<>>)
     /\ (match.matched /\ ~match.match_data) => ~r_ret
     /\ r_cleanups = 1

\* the entries that hold the text of group n
EntriesOfGroup(n) ==
  {x \in DOMAIN r_container.entries : r_container.entries[x].value.elem = n}

\* the groups of the match that did not take part in it
UnsetGroups == {n \in 0..Len(pattern) : ~match.ovector[n + 1]}

\* C35: a capture group that did not take part in a successful match
\* produces no entry in either mode: it is not appended to the list in list
\* mode and neither stored nor renamed in the dict in dict mode.
C35_UnsetGroupsSkipped ==
  MatchStored => \A n \in UnsetGroups : EntriesOfGroup(n) = {}

\* list mode does skip such groups
UnsetGroupsSkippedInList ==
  (MatchStored /\ flags.list_mode) => \A n \in UnsetGroups : EntriesOfGroup(n) = {}

(* ---------------------------------------------- regexp_search: constructor *)

\* a named flag argument: not given, a boolean literal, or something else
FlagArgs == {"absent", "true", "false", "invalid"}

\* the second positional argument: a string literal that compiles, one that
\* does not, or an expression that is not a string literal
PatternArgs == {"literal", "bad_literal", "not_literal"}

\* _extract_optional_arg_flag(): fails, with the error set, on a flag that
\* is not a boolean literal
_extract_optional_arg_flag(arg) ==
  [ok |-> arg # "invalid",
   error |-> IF arg = "invalid" THEN "flag must be boolean literal" ELSE "none"]

mut_extract_search_args_any_len(a) ==
  IF a.pattern = "not_literal"
  THEN [ok |-> FALSE, error |-> "pattern must be string literal"]
  ELSE IF a.pattern = "bad_literal"
  THEN [ok |-> FALSE, error |-> "failed to compile pattern"]
  ELSE [ok |-> TRUE, error |-> "none"]

\* _extract_search_args()
_extract_search_args(a) ==
  IF a.len # 2
  THEN [ok |-> FALSE, error |-> "invalid number of arguments"]
  ELSE IF a.pattern = "not_literal"
  THEN [ok |-> FALSE, error |-> "pattern must be string literal"]
  ELSE IF a.pattern = "bad_literal"
  THEN [ok |-> FALSE, error |-> "failed to compile pattern"]
  ELSE [ok |-> TRUE, error |-> "none"]

\* filterx_function_args_check(): fails, with the error set, on arguments
\* nobody asked for
filterx_function_args_check(a) ==
  [ok |-> a.check_ok, error |-> IF a.check_ok THEN "none" ELSE "unexpected argument"]

\* the error: label
new_error(error) ==
  [ret |-> "NULL", error |-> error,
   calls |-> <<"filterx_function_args_free", "filterx_expr_unref">>]

\* filterx_generator_function_regexp_search_new()
filterx_generator_function_regexp_search_new(a) ==
  LET kz == _extract_optional_arg_flag(a.keep_zero)
      lm == _extract_optional_arg_flag(a.list_mode)
      sa == _extract_search_args(a)
      ck == filterx_function_args_check(a)
  IN IF ~kz.ok THEN new_error(kz.error)
     ELSE IF ~lm.ok THEN new_error(lm.error)
     ELSE IF ~sa.ok THEN new_error(sa.error)
     ELSE IF ~ck.ok THEN new_error(ck.error)
     ELSE [ret |-> "node", error |-> "none", calls |-> <<"filterx_function_args_free">>]

InitNew ==
  /\ n_args \in [len : 0..MaxArgs, pattern : PatternArgs, keep_zero : FlagArgs,
                  list_mode : FlagArgs, check_ok : BOOLEAN]
  /\ n_pc = "args"
  /\ n_out = [ret |-> "NULL", error |-> "none", calls |-> <<>>]

\* the parser calls the constructor on the arguments
RegexpSearchNew ==
  /\ n_pc = "args"
  /\ n_out' = filterx_generator_function_regexp_search_new(n_args)
  /\ n_pc' = "done"
  /\ UNCHANGED n_args

NewInit == InitNew /\ IdleEval /\ IdleLife /\ IdleGen /\ IdleProc /\ IdleAffix /\ IdleRegexp /\ IdleTls /\ IdleVar /\ IdleRef /\ IdleScratch

NewNext == RegexpSearchNew /\ UNCHANGED notNew

SpecNew == NewInit /\ [][NewNext]_vars

(* ----------------------------------------------- constructor: properties *)

\* C23: the constructor returns NULL with an error set when the number of
\* positional arguments is not 2, when the pattern is not a string literal
\* and when the pattern does not compile; on every path the args are freed
\* exactly once.
C23_ConstructorFails ==
  n_pc = "done" =>
     /\ (n_args.len # 2 \/ n_args.pattern # "literal") =>
          (n_out.ret = "NULL" /\ n_out.error # "none")
     /\ Cardinality({x \in DOMAIN n_out.calls :
                        n_out.calls[x] = "filterx_function_args_free"}) = 1

C23_Witness ==
  /\ n_pc = "done"
  /\ n_args.len = 2 /\ n_args.pattern = "bad_literal"
  /\ n_args.keep_zero = "true" /\ n_args.list_mode = "absent"
  /\ n_out.ret = "NULL"
  /\ n_out.error = "failed to compile pattern"

(* ------------------------------------------------------- TLS transport *)

Errnos == {"0", "EAGAIN", "EINTR", "ECONNRESET", "EPIPE", "EIO"}

\* what a failing system call under libssl may leave in errno
SyscallErrnos == {"EINTR", "EIO"}

\* An outcome of a libssl call: its return value, what SSL_get_error() says
\* about it, and what it does to errno ("same": errno is left as it was, as
\* libssl does when it reports SSL_ERROR_SYSCALL at an unexpected EOF).
Outcome3(rc, err, eno) == [rc |-> rc, err |-> err, errno |-> eno]

FailedOutcomes(errs) ==
  {Outcome3(-1, e, "same") : e \in errs \ {"SSL_ERROR_SYSCALL"}}
  \cup {Outcome3(-1, "SSL_ERROR_SYSCALL", eno) :
         eno \in IF "SSL_ERROR_SYSCALL" \in errs THEN SyscallErrnos \cup {"same"} ELSE {}}

\* SSL_read(): data, or a failure; once the peer's close_notify was seen
\* there is no more data
SslReadOutcomes(closed) ==
  IF closed
  THEN {Outcome3(0, "SSL_ERROR_ZERO_RETURN", "same")}
       \cup FailedOutcomes({"SSL_ERROR_SYSCALL", "SSL_ERROR_SSL"})
  ELSE {Outcome3(1, "SSL_ERROR_NONE", "same"), Outcome3(0, "SSL_ERROR_ZERO_RETURN", "same"),
        Outcome3(0, "SSL_ERROR_SYSCALL", "same")}
       \cup FailedOutcomes({"SSL_ERROR_WANT_READ", "SSL_ERROR_WANT_WRITE",
                            "SSL_ERROR_SYSCALL", "SSL_ERROR_SSL"})

\* SSL_shutdown(): 1 (both directions closed), 0 (close_notify sent), or a failure
SslShutdownOutcomes ==
  {Outcome3(1, "SSL_ERROR_NONE", "same"), Outcome3(0, "SSL_ERROR_NONE", "same")}
  \cup FailedOutcomes({"SSL_ERROR_WANT_READ", "SSL_ERROR_WANT_WRITE",
                       "SSL_ERROR_SYSCALL", "SSL_ERROR_SSL"})

\* SSL_write(): bytes written, or a failure
SslWriteOutcomes ==
  {Outcome3(1, "SSL_ERROR_NONE", "same"), Outcome3(0, "SSL_ERROR_NONE", "same")}
  \cup FailedOutcomes({"SSL_ERROR_WANT_READ", "SSL_ERROR_WANT_WRITE",
                       "SSL_ERROR_SYSCALL", "SSL_ERROR_SSL"})

\* errno after a libssl call
errno_after(eno, out) == IF out.errno = "same" THEN eno ELSE out.errno

_is_shutdown_sent(shutdown_rc) == shutdown_rc >= 0

mut_handle_shutdown_error_gives_up(st, ssl_error) ==
  [st EXCEPT !.errno = "ECONNRESET", !.sending_shutdown = FALSE]

\* _handle_shutdown_error() on st = [sending_shutdown, cond, errno]
_handle_shutdown_error(st, ssl_error) ==
  CASE ssl_error = "SSL_ERROR_WANT_READ" ->
         [st EXCEPT !.cond = "G_IO_IN", !.errno = "EAGAIN"]
    [] ssl_error = "SSL_ERROR_WANT_WRITE" ->
         [st EXCEPT !.cond = "G_IO_OUT", !.errno = "EAGAIN"]
    [] ssl_error = "SSL_ERROR_SYSCALL" ->
         [st EXCEPT !.sending_shutdown = FALSE]
    [] OTHER ->
         [st EXCEPT !.errno = "ECONNRESET", !.sending_shutdown = FALSE]

\* log_transport_tls_send_shutdown(), sh being what SSL_shutdown() does
log_transport_tls_send_shutdown(st, sh) ==
  LET called == [st EXCEPT !.sending_shutdown = TRUE, !.errno = errno_after(st.errno, sh)]
  IN IF _is_shutdown_sent(sh.rc)
     THEN [st |-> [called EXCEPT !.sending_shutdown = FALSE], rc |-> sh.rc]
     ELSE [st |-> _handle_shutdown_error(called, sh.err), rc |-> sh.rc]

mut_shutdown_result_always_eof(shutdown_rc) == 0

\* (log_transport_tls_send_shutdown(self) >= 0) ? 0 : -1
shutdown_result(shutdown_rc) == IF shutdown_rc >= 0 THEN 0 ELSE -1

mut_read_syscall_always_fails(eno) == -1

\* rc = (errno == 0) ? 0 : -1
read_syscall_rc(eno) == IF eno = "0" THEN 0 ELSE -1

mut_read_want_write_keeps_cond(c) == c

\* case SSL_ERROR_WANT_WRITE of the read method: cond = G_IO_OUT
read_want_write_cond(c) == "G_IO_OUT"

\* One pass of the do-while of log_transport_tls_read_method(): rd is what
\* SSL_read() does, sh what SSL_shutdown() does if it comes to that. again
\* says that the loop condition holds, tls_error that the pass left through
\* the tls_error label, shutdown that SSL_shutdown() was called.
read_pass(st, rd, sh) ==
  LET s1 == [st EXCEPT !.errno = errno_after(st.errno, rd)]
      done(s, rc, shut) ==
        [st |-> IF rc > 0 THEN [s EXCEPT !.cond = "0"] ELSE s,
         rc |-> rc, again |-> (rc = -1 /\ s.errno = "EINTR"), shutdown |-> shut]
  IN IF rd.rc > 0 THEN done(s1, rd.rc, FALSE)
     ELSE CASE rd.err = "SSL_ERROR_WANT_READ" ->
                 done([s1 EXCEPT !.errno = "EAGAIN"], -1, FALSE)
            [] rd.err = "SSL_ERROR_WANT_WRITE" ->
                 done([s1 EXCEPT !.cond = read_want_write_cond(s1.cond), !.errno = "EAGAIN"],
                      -1, FALSE)
            [] rd.err = "SSL_ERROR_ZERO_RETURN" ->
                 LET r == log_transport_tls_send_shutdown(s1, sh)
                 IN done(r.st, shutdown_result(r.rc), TRUE)
            [] rd.err = "SSL_ERROR_SYSCALL" ->
                 done(s1, read_syscall_rc(s1.errno), FALSE)
            [] OTHER ->
                 [st |-> [s1 EXCEPT !.errno = "ECONNRESET"], rc |-> -1, again |-> FALSE,
                  shutdown |-> FALSE]

\* log_transport_tls_write_method(), wr being what SSL_write() does
log_transport_tls_write_method(st, wr) ==
  LET s1 == [st EXCEPT !.cond = "G_IO_OUT", !.errno = errno_after(st.errno, wr)]
  IN IF wr.rc < 0
     THEN CASE wr.err = "SSL_ERROR_WANT_READ" ->
                 [st |-> [s1 EXCEPT !.cond = "G_IO_IN", !.errno = "EAGAIN"], rc |-> wr.rc]
            [] wr.err = "SSL_ERROR_WANT_WRITE" ->
                 [st |-> [s1 EXCEPT !.errno = "EAGAIN"], rc |-> wr.rc]
            [] wr.err = "SSL_ERROR_SYSCALL" ->
                 IF s1.errno = "0"
                 THEN [st |-> [s1 EXCEPT !.errno = "ECONNRESET"], rc |-> -1]
                 ELSE [st |-> s1, rc |-> wr.rc]
            [] OTHER ->
                 [st |-> [s1 EXCEPT !.errno = "EPIPE"], rc |-> -1]
     ELSE [st |-> [s1 EXCEPT !.cond = "0"], rc |-> wr.rc]

SelfTls == [sending_shutdown |-> sending_shutdown, cond |-> cond, errno |-> errno]

\* a libssl call in the history: eno is errno as the call left it
SslCall(fn, out, eno) ==
  [fn |-> fn, rc |-> out.rc, err |-> out.err, eno |-> errno_after(eno, out)]

\* log_transport_tls_new(); errno is whatever the thread had
InitTls ==
  /\ sending_shutdown = FALSE /\ cond = "0" /\ errno \in Errnos /\ peer_closed = FALSE
  /\ t_pc = "idle" /\ t_op = "none" /\ t_rc = 0 /\ ssl_log = <<>>

\* log_transport_tls_read_method() is called: with a shutdown pending it
\* retries the shutdown and returns, else it enters the do-while
TlsRead ==
  /\ t_pc \in {"idle", "returned"}
  /\ t_op' = "read"
  /\ IF sending_shutdown
     THEN \E sh \in SslShutdownOutcomes :
            LET r == log_transport_tls_send_shutdown(SelfTls, sh)
            IN /\ sending_shutdown' = r.st.sending_shutdown
               /\ cond' = r.st.cond
               /\ errno' = r.st.errno
               /\ t_rc' = shutdown_result(r.rc)
               /\ ssl_log' = <<SslCall("SSL_shutdown", sh, errno)>>
               /\ t_pc' = "returned"
     ELSE /\ cond' = "G_IO_IN"
          /\ ssl_log' = <<>>
          /\ t_pc' = "read_loop"
          /\ UNCHANGED <<sending_shutdown, errno, t_rc>>
  /\ UNCHANGED peer_closed

\* one pass of the do-while of the read method
TlsReadPass ==
  /\ t_pc = "read_loop"
  /\ Len(ssl_log) < MaxSslCalls
  /\ \E rd \in SslReadOutcomes(peer_closed), sh \in SslShutdownOutcomes :
       LET r == read_pass(SelfTls, rd, sh)
       IN /\ sending_shutdown' = r.st.sending_shutdown
          /\ cond' = r.st.cond
          /\ errno' = r.st.errno
          /\ peer_closed' = (peer_closed \/ rd.err = "SSL_ERROR_ZERO_RETURN")
          /\ ssl_log' = ssl_log \o <<SslCall("SSL_read", rd, errno)>>
                         \o (IF r.shutdown
                             THEN <<SslCall("SSL_shutdown", sh, errno_after(errno, rd))>>
                             ELSE <<>>)
          /\ IF r.again
             THEN UNCHANGED <<t_pc, t_rc>>
             ELSE t_pc' = "returned" /\ t_rc' = r.rc
  /\ UNCHANGED t_op

\* log_transport_tls_write_method() is called
TlsWrite ==
  /\ t_pc \in {"idle", "returned"}
  /\ t_op' = "write"
  /\ \E wr \in SslWriteOutcomes :
       LET r == log_transport_tls_write_method(SelfTls, wr)
       IN /\ cond' = r.st.cond
          /\ errno' = r.st.errno
          /\ t_rc' = r.rc
          /\ ssl_log' = <<SslCall("SSL_write", wr, errno)>>
  /\ t_pc' = "returned"
  /\ UNCHANGED <<sending_shutdown, peer_closed>>

TlsInit == InitTls /\ IdleEval /\ IdleLife /\ IdleGen /\ IdleProc /\ IdleAffix /\ IdleRegexp /\ IdleNew /\ IdleVar /\ IdleRef /\ IdleScratch

TlsNext ==
  \/ (TlsRead /\ UNCHANGED notTls)
  \/ (TlsReadPass /\ UNCHANGED notTls)
  \/ (TlsWrite /\ UNCHANGED notTls)

SpecTls == TlsInit /\ [][TlsNext]_vars

(* ------------------------------------------------------ TLS: properties *)

ReadReturned == t_pc = "returned" /\ t_op = "read"
WriteReturned == t_pc = "returned" /\ t_op = "write"

LastSslCall == ssl_log[Len(ssl_log)]

ZeroReturnAt(x) ==
  ssl_log[x].fn = "SSL_read" /\ ssl_log[x].err = "SSL_ERROR_ZERO_RETURN"

ShutdownAttempts == {x \in DOMAIN ssl_log : ssl_log[x].fn = "SSL_shutdown"}

\* C24 (as stated): when SSL_read reports SSL_ERROR_ZERO_RETURN, the read
\* makes one SSL_shutdown attempt before it returns, and returns 0 if the
\* shutdown was sent (rc >= 0) and -1 otherwise.
C24_OneShutdownAttempt ==
  (ReadReturned /\ \E x \in DOMAIN ssl_log : ZeroReturnAt(x)) =>
     /\ Cardinality(ShutdownAttempts) = 1
     /\ \A x \in ShutdownAttempts : t_rc = IF ssl_log[x].rc >= 0 THEN 0 ELSE -1

\* C24 (amended): each SSL_read that reports SSL_ERROR_ZERO_RETURN is
\* followed by one SSL_shutdown attempt; the read then returns 0 if the
\* shutdown was sent and -1 if not, except that after an attempt that failed
\* with SSL_ERROR_SYSCALL and errno EINTR it calls SSL_read again.
C24_ShutdownPerZeroReturn ==
  t_op = "read" =>
     \A x \in DOMAIN ssl_log :
        ZeroReturnAt(x) =>
           /\ x + 1 \in DOMAIN ssl_log
           /\ ssl_log[x + 1].fn = "SSL_shutdown"
           /\ IF x + 2 \in DOMAIN ssl_log
              THEN /\ ssl_log[x + 1].err = "SSL_ERROR_SYSCALL"
                   /\ ssl_log[x + 1].eno = "EINTR"
                   /\ ssl_log[x + 2].fn = "SSL_read"
              ELSE IF ssl_log[x + 1].err = "SSL_ERROR_SYSCALL" /\ ssl_log[x + 1].eno = "EINTR"
                   THEN t_pc = "read_loop"
                   ELSE ReadReturned /\ t_rc = IF ssl_log[x + 1].rc >= 0 THEN 0 ELSE -1

C24_Witness ==
  /\ ReadReturned
  /\ Len(ssl_log) = 2
  /\ ZeroReturnAt(1)
  /\ ssl_log[2].fn = "SSL_shutdown" /\ ssl_log[2].rc = 0
  /\ t_rc = 0

\* libssl reported SSL_ERROR_SYSCALL and left errno 0
SyscallWithoutErrno ==
  /\ ssl_log # <<>>
  /\ LastSslCall.err = "SSL_ERROR_SYSCALL"
  /\ LastSslCall.eno = "0"

\* C25 (as stated): in the read and in the write method, SSL_ERROR_SYSCALL
\* with errno 0 makes the call return -1 with errno ECONNRESET.
C25_SyscallIsConnReset ==
  (t_pc = "returned" /\ SyscallWithoutErrno /\ LastSslCall.fn \in {"SSL_read", "SSL_write"}) =>
     (t_rc = -1 /\ errno = "ECONNRESET")

\* C25 (amended): SSL_ERROR_SYSCALL with errno 0 makes the write method
\* return -1 with errno ECONNRESET; the read method returns 0 (end of
\* stream) and leaves errno 0.
C25_SyscallWriteResetReadEof ==
  (t_pc = "returned" /\ SyscallWithoutErrno) =>
     /\ LastSslCall.fn = "SSL_write" => (t_rc = -1 /\ errno = "ECONNRESET")
     /\ LastSslCall.fn = "SSL_read" => (t_rc = 0 /\ errno = "0")

C25_Witness ==
  /\ ReadReturned /\ SyscallWithoutErrno
  /\ LastSslCall.fn = "SSL_read"
  /\ t_rc = 0

\* C26: whenever a call returns -1 with errno EAGAIN, cond is G_IO_IN if
\* libssl wanted to read and G_IO_OUT if it wanted to write, whichever
\* method was called; after a call that transferred data, cond is 0.
C26_PollCondition ==
  t_pc = "returned" =>
     /\ (t_rc = -1 /\ errno = "EAGAIN" /\ LastSslCall.err = "SSL_ERROR_WANT_READ") =>
          cond = "G_IO_IN"
     /\ (t_rc = -1 /\ errno = "EAGAIN" /\ LastSslCall.err = "SSL_ERROR_WANT_WRITE") =>
          cond = "G_IO_OUT"
     /\ t_rc > 0 => cond = "0"

C26_Witness ==
  /\ ReadReturned
  /\ t_rc = -1 /\ errno = "EAGAIN"
  /\ LastSslCall.fn = "SSL_read"
  /\ LastSslCall.err = "SSL_ERROR_WANT_WRITE"
  /\ cond = "G_IO_OUT"

\* libssl asked to be called again once the socket is readable / writable
Wants == {"SSL_ERROR_WANT_READ", "SSL_ERROR_WANT_WRITE"}

\* the step is a read call that finds a shutdown pending
PendingRead == sending_shutdown /\ t_pc \in {"idle", "returned"} /\ t_op' = "read"

\* the step is a pass of the read loop (it calls SSL_read)
ReadPassStep == t_pc = "read_loop" /\ ssl_log' # ssl_log

\* the step made a shutdown attempt: the last call it logged is SSL_shutdown
AttemptStep ==
  \/ PendingRead
  \/ ReadPassStep /\ ssl_log'[Len(ssl_log')].fn = "SSL_shutdown"

\* what C31 says of every step but the return value after a failed attempt
PendingShutdownRules ==
  /\ PendingRead =>
       /\ Len(ssl_log') = 1
       /\ ssl_log'[1].fn = "SSL_shutdown"
       /\ t_pc' = "returned"
  /\ ReadPassStep => ~sending_shutdown
  /\ ~AttemptStep => sending_shutdown' = sending_shutdown
  /\ AttemptStep =>
       LET attempt == ssl_log'[Len(ssl_log')]
       IN /\ (attempt.rc < 0 /\ attempt.err \in Wants) =>
               (sending_shutdown' /\ t_pc' = "returned" /\ t_rc' = -1 /\ errno' = "EAGAIN")
          /\ ~sending_shutdown' <=> (attempt.rc >= 0 \/ attempt.err \notin Wants)
          /\ attempt.rc >= 0 => (t_pc' = "returned" /\ t_rc' = 0)

\* the attempt of the step failed for good (not WANT_READ / WANT_WRITE)
AttemptFailed ==
  /\ AttemptStep
  /\ ssl_log'[Len(ssl_log')].rc < 0
  /\ ssl_log'[Len(ssl_log')].err \notin Wants

\* C31 (as stated): a shutdown attempt that ends with WANT_READ or WANT_WRITE
\* leaves sending_shutdown TRUE and the read returns -1/EAGAIN; every later
\* read retries SSL_shutdown and SSL_read is never called while
\* sending_shutdown is TRUE; sending_shutdown becomes FALSE exactly when an
\* attempt is sent (the read returns 0) or fails with SSL_ERROR_SYSCALL or
\* another SSL error (the read returns -1).
C31_PendingShutdown ==
  [][/\ PendingShutdownRules
     /\ AttemptFailed => (t_pc' = "returned" /\ t_rc' = -1)]_vars

\* C31 (amended): as stated, except that an attempt made inside the read
\* loop that fails with SSL_ERROR_SYSCALL and errno EINTR does not end the
\* read: sending_shutdown is FALSE and the loop calls SSL_read again.
C31_PendingShutdownOrRetry ==
  [][/\ PendingShutdownRules
     /\ AttemptFailed =>
          IF ReadPassStep /\ errno' = "EINTR"
          THEN t_pc' = "read_loop" /\ ssl_log'[Len(ssl_log')].err = "SSL_ERROR_SYSCALL"
          ELSE t_pc' = "returned" /\ t_rc' = -1]_vars

\* a read that found the shutdown pending, retried it and sent it
C31_Witness ==
  /\ ReadReturned
  /\ Len(ssl_log) = 1
  /\ ssl_log[1].fn = "SSL_shutdown" /\ ssl_log[1].rc >= 0
  /\ ~sending_shutdown
  /\ t_rc = 0

\* C36: for every sequence of SSL_read / SSL_shutdown outcomes the read
\* method does not return -1 with errno EINTR, calls made while a shutdown
\* is pending included.
C36_ReadNeverInterrupted ==
  ReadReturned => ~(t_rc = -1 /\ errno = "EINTR")

\* the read loop itself never returns an interrupted call
ReadLoopNeverInterrupted ==
  (ReadReturned /\ ssl_log[1].fn = "SSL_read") => ~(t_rc = -1 /\ errno = "EINTR")

\* C37: whenever the read or the write method returns -1, errno is nonzero:
\* EAGAIN for WANT_READ / WANT_WRITE, ECONNRESET (read, shutdown) or EPIPE
\* (write) for other SSL errors, a real errno for SSL_ERROR_SYSCALL, the
\* paths through a shutdown attempt included.
C37_ErrnoSetOnFailure ==
  (t_pc = "returned" /\ t_rc = -1) =>
     /\ errno # "0"
     /\ LastSslCall.err \in Wants => errno = "EAGAIN"
     /\ LastSslCall.err = "SSL_ERROR_SSL" =>
          errno = IF LastSslCall.fn = "SSL_write" THEN "EPIPE" ELSE "ECONNRESET"

\* errno is nonzero on every -1 that does not come from a shutdown attempt
ErrnoSetUnlessShutdown ==
  (t_pc = "returned" /\ t_rc = -1 /\ LastSslCall.fn # "SSL_shutdown") => errno # "0"

(* ------------------------------------------- variable handles and slots *)

\* C integer conversions between unsigned widths: zero extension, truncation
Convert(word, w) ==
  [bit \in 0..(w - 1) |-> IF bit \in DOMAIN word THEN word[bit] ELSE FALSE]

BitAnd(a, b) == [bit \in DOMAIN a |-> a[bit] /\ b[bit]]
BitNot(a) == [bit \in DOMAIN a |-> ~a[bit]]
NonZero(a) == \E bit \in DOMAIN a : a[bit]

\* 1UL << n
ShiftedOne(n) == [bit \in 0..(ULongBits - 1) |-> bit = n]

mut_floating_bit_is_bit_30 == ShiftedOne(30)

\* #define FILTERX_HANDLE_FLOATING_BIT (1UL << 31)
FILTERX_HANDLE_FLOATING_BIT == ShiftedOne(31)

\* !!(handle & FILTERX_HANDLE_FLOATING_BIT)
filterx_variable_handle_is_floating(handle) ==
  NonZero(BitAnd(Convert(handle, ULongBits), FILTERX_HANDLE_FLOATING_BIT))

filterx_variable_handle_is_message_tied(handle) ==
  ~filterx_variable_handle_is_floating(handle)

\* handle & ~FILTERX_HANDLE_FLOATING_BIT, returned as an NVHandle (guint32)
filterx_variable_handle_to_nv_handle(handle) ==
  Convert(BitAnd(Convert(handle, ULongBits), BitNot(FILTERX_HANDLE_FLOATING_BIT)),
          HandleBits)

\* the handles tried: every combination of these bits, the others clear
HandleBitsTried == {0, 1, 15, 30, 31}
Handles == {[bit \in 0..(HandleBits - 1) |-> bit \in S] : S \in SUBSET HandleBitsTried}

VariableTypes == {"FX_VAR_MESSAGE_TIED", "FX_VAR_FLOATING", "FX_VAR_DECLARED_FLOATING"}
Generations == 0..MaxGeneration
VarValues == VarObjects \cup {NoValue}

\* filterx_object_ref / filterx_object_unref on a slot value: NULL is ignored
var_object_ref(counts, o) ==
  IF o = NoValue THEN counts ELSE [counts EXCEPT ![o] = @ + 1]

mut_set_value_keeps_value(v, new_value, assignment, generation) ==
  [v EXCEPT !.assigned = assignment, !.generation = generation]

filterx_variable_set_value(v, new_value, assignment, generation) ==
  [v EXCEPT !.value = new_value, !.assigned = assignment, !.generation = generation]

filterx_variable_unset_value(v, generation) ==
  filterx_variable_set_value(v, NoValue, TRUE, generation)

filterx_variable_is_set(v) == v.value # NoValue
filterx_variable_is_declared(v) == v.variable_type = "FX_VAR_DECLARED_FLOATING"
filterx_variable_is_assigned(v) == v.assigned
filterx_variable_is_same_generation(v, generation) == v.generation = generation
filterx_variable_set_generation(v, generation) == [v EXCEPT !.generation = generation]
filterx_variable_unassign(v) == [v EXCEPT !.assigned = FALSE]

InitVar ==
  /\ slot \in [handle : Handles, assigned : BOOLEAN, variable_type : VariableTypes,
                generation : Generations, value : VarValues]
  /\ v_pc = "idle"
  /\ v_before = slot
  /\ v_gen_arg = 0
  /\ v_refs = NoCalls
  /\ v_unrefs = NoCalls
  /\ v_query = [floating |-> FALSE, message_tied |-> FALSE, nv_handle |-> ZeroWord(HandleBits)]

\* what every slot operation records
VarCalled(op, gen, refd, unrefd_obj) ==
  /\ v_pc' = op
  /\ v_before' = slot
  /\ v_gen_arg' = gen
  /\ v_refs' = var_object_ref(NoCalls, refd)
  /\ v_unrefs' = var_object_ref(NoCalls, unrefd_obj)

VarSetValue ==
  \E new_value \in VarValues, assignment \in BOOLEAN, generation \in Generations :
     /\ slot' = filterx_variable_set_value(slot, new_value, assignment, generation)
     /\ VarCalled("set_value", generation, new_value, slot.value)
     /\ UNCHANGED v_query

VarUnsetValue ==
  \E generation \in Generations :
     /\ slot' = filterx_variable_unset_value(slot, generation)
     /\ VarCalled("unset_value", generation, NoValue, slot.value)
     /\ UNCHANGED v_query

VarSetGeneration ==
  \E generation \in Generations :
     /\ slot' = filterx_variable_set_generation(slot, generation)
     /\ VarCalled("set_generation", generation, NoValue, NoValue)
     /\ UNCHANGED v_query

VarUnassign ==
  /\ slot' = filterx_variable_unassign(slot)
  /\ VarCalled("unassign", v_gen_arg, NoValue, NoValue)
  /\ UNCHANGED v_query

\* filterx_variable_is_floating / is_message_tied / get_nv_handle
VarHandleQuery ==
  /\ v_query' = [floating |-> filterx_variable_handle_is_floating(slot.handle),
                 message_tied |-> filterx_variable_handle_is_message_tied(slot.handle),
                 nv_handle |-> filterx_variable_handle_to_nv_handle(slot.handle)]
  /\ VarCalled("handle_query", v_gen_arg, NoValue, NoValue)
  /\ UNCHANGED slot

VarInit == InitVar /\ IdleEval /\ IdleLife /\ IdleGen /\ IdleProc /\ IdleAffix /\ IdleRegexp /\ IdleNew /\ IdleTls /\ IdleRef /\ IdleScratch

VarNext ==
  \/ VarSetValue /\ UNCHANGED notVar
  \/ VarUnsetValue /\ UNCHANGED notVar
  \/ VarSetGeneration /\ UNCHANGED notVar
  \/ VarUnassign /\ UNCHANGED notVar
  \/ VarHandleQuery /\ UNCHANGED notVar

SpecVariable == VarInit /\ [][VarNext]_vars

(* ------------------------------------------------- variable: properties *)

LowBitsEqual(g, h) == \A bit \in 0..(HandleBits - 2) : g[bit] = h[bit]

\* C27: for every 32-bit handle exactly one of handle_is_floating and
\* handle_is_message_tied holds, decided by bit 31 alone; handle_to_nv_handle
\* returns the handle with bit 31 cleared and the low 31 bits unchanged, so
\* the floating and the message-tied handle with the same low bits give the
\* same NVHandle.
C27_HandleBit31 ==
  v_pc = "handle_query" =>
     /\ v_query.floating # v_query.message_tied
     /\ v_query.floating = slot.handle[HandleBits - 1]
     /\ DOMAIN v_query.nv_handle = 0..(HandleBits - 1)
     /\ ~v_query.nv_handle[HandleBits - 1]
     /\ LowBitsEqual(v_query.nv_handle, slot.handle)
     /\ \A g \in Handles :
           LowBitsEqual(g, slot.handle) =>
              filterx_variable_handle_to_nv_handle(g) = v_query.nv_handle

C27_Witness ==
  /\ v_pc = "handle_query"
  /\ slot.handle[31] /\ slot.handle[30] /\ slot.handle[0]
  /\ v_query.floating
  /\ v_query.nv_handle[30] /\ ~v_query.nv_handle[31]

\* the parts of C28 the header guarantees: null value, slot kept, the old
\* object released once and nothing else touched
UnsetKeepsSlot ==
  /\ slot.value = NoValue
  /\ ~filterx_variable_is_set(slot)
  /\ slot.handle = v_before.handle
  /\ slot.variable_type = v_before.variable_type
  /\ v_unrefs = var_object_ref(NoCalls, v_before.value)
  /\ v_refs = NoCalls

\* C28 (as stated): unset_value leaves a null value, keeps handle and
\* variable_type, releases the previous object exactly once, and leaves the
\* generation different from the one before the call, so a holder of the
\* old generation sees is_same_generation false.
C28_UnsetBumpsGeneration ==
  v_pc = "unset_value" =>
     /\ UnsetKeepsSlot
     /\ slot.generation # v_before.generation
     /\ ~filterx_variable_is_same_generation(slot, v_before.generation)

\* C28 (amended): unset_value leaves a null value, keeps handle and
\* variable_type, releases the previous object exactly once, marks the slot
\* assigned and stores the generation its caller passes; the generation
\* differs from the old one exactly when the caller passes a different one.
C28_UnsetStoresGeneration ==
  v_pc = "unset_value" =>
     /\ UnsetKeepsSlot
     /\ filterx_variable_is_assigned(slot)
     /\ slot.generation = v_gen_arg
     /\ filterx_variable_is_same_generation(slot, v_before.generation)
          <=> (v_gen_arg = v_before.generation)

C28_Witness ==
  /\ v_pc = "unset_value"
  /\ v_before.value = "o1"
  /\ v_unrefs["o1"] = 1
  /\ slot.value = NoValue
  /\ v_gen_arg = v_before.generation

(* ------------------------------------------ expression reference counts *)

RECURSIVE SumOver(_, _)
SumOver(f, S) ==
  IF S = {} THEN 0
  ELSE LET x == CHOOSE y \in S : TRUE IN f[x] + SumOver(f, S \ {x})

mut_init_instance_counts_two(cnt) == 2

\* filterx_expr_init_instance: g_atomic_counter_set(&self->ref_cnt, 1)
filterx_expr_init_instance(cnt) == 1

\* g_atomic_counter_inc / g_atomic_counter_dec_and_test: one atomic step each
g_atomic_counter_inc(cnt) == cnt + 1
g_atomic_counter_dec_and_test(cnt) == [cnt |-> cnt - 1, zero |-> cnt - 1 = 0]

\* references in use: held ones and those an unref has not yet decremented
Dropping == {t \in Threads : u_pc[t] = "dec"}
LiveRefs == SumOver(held, Threads) + Cardinality(Dropping)

\* filterx_expr_new by one of the threads, which holds the first reference
InitRef ==
  /\ ref_cnt = filterx_expr_init_instance(0)
  /\ held \in {[t \in Threads |-> IF t = creator THEN 1 ELSE 0] : creator \in Threads}
  /\ u_pc = [t \in Threads |-> "idle"]
  /\ frees = 0
  /\ live_at_free = 0
  /\ assert_failed = FALSE
  /\ overlapped = FALSE

\* filterx_expr_ref(self) by a thread that holds a reference or is handed
\* the node by a thread that does
ExprRef(t) ==
  /\ u_pc[t] = "idle"
  /\ \E giver \in Threads : held[giver] > 0
  /\ LiveRefs < MaxRefs
  /\ ref_cnt' = g_atomic_counter_inc(ref_cnt)
  /\ held' = [held EXCEPT ![t] = @ + 1]
  /\ UNCHANGED <<u_pc, frees, live_at_free, assert_failed, overlapped>>

\* filterx_expr_unref(self), first step: g_assert(ref_cnt > 0)
ExprUnrefAssert(t) ==
  /\ u_pc[t] = "idle"
  /\ held[t] > 0
  /\ held' = [held EXCEPT ![t] = @ - 1]
  /\ IF ref_cnt > 0
     THEN u_pc' = [u_pc EXCEPT ![t] = "dec"] /\ UNCHANGED assert_failed
     ELSE assert_failed' = TRUE /\ UNCHANGED u_pc
  /\ overlapped' = (overlapped \/ \E other \in Threads \ {t} : u_pc[other] # "idle")
  /\ UNCHANGED <<ref_cnt, frees, live_at_free>>

\* second step: g_atomic_counter_dec_and_test(&self->ref_cnt)
ExprUnrefDec(t) ==
  /\ u_pc[t] = "dec"
  /\ LET r == g_atomic_counter_dec_and_test(ref_cnt)
     IN /\ ref_cnt' = r.cnt
        /\ u_pc' = [u_pc EXCEPT ![t] = IF r.zero THEN "free" ELSE "idle"]
  /\ UNCHANGED <<held, frees, live_at_free, assert_failed, overlapped>>

\* third step, when the count reached zero: self->free_fn(self); g_free(self)
ExprUnrefFree(t) ==
  /\ u_pc[t] = "free"
  /\ frees' = frees + 1
  /\ live_at_free' = LiveRefs
  /\ u_pc' = [u_pc EXCEPT ![t] = "idle"]
  /\ UNCHANGED <<ref_cnt, held, assert_failed, overlapped>>

RefInit == InitRef /\ IdleEval /\ IdleLife /\ IdleGen /\ IdleProc /\ IdleAffix /\ IdleRegexp /\ IdleNew /\ IdleTls /\ IdleVar /\ IdleScratch

RefNext ==
  \/ \E t \in Threads : ExprRef(t) /\ UNCHANGED notRef
  \/ \E t \in Threads : ExprUnrefAssert(t) /\ UNCHANGED notRef
  \/ \E t \in Threads : ExprUnrefDec(t) /\ UNCHANGED notRef
  \/ \E t \in Threads : ExprUnrefFree(t) /\ UNCHANGED notRef

SpecRefcount == RefInit /\ [][RefNext]_vars

(* ------------------------------------------------- refcount: properties *)

Freeing == {t \in Threads : u_pc[t] = "free"}

\* C29: a node starts with count 1; in every interleaving of ref and unref
\* by threads that drop only references they hold, the count never goes
\* below zero, free_fn runs exactly once, exactly at the unref that brings
\* the count to zero, and never while another holder still has a reference.
C29_RefcountSafe ==
  /\ ref_cnt >= 0
  /\ ~assert_failed
  /\ ref_cnt = LiveRefs
  /\ frees + Cardinality(Freeing) <= 1
  /\ (ref_cnt = 0) <=> (frees + Cardinality(Freeing) = 1)
  /\ Freeing # {} => LiveRefs = 0
  /\ live_at_free = 0

C29_Witness ==
  /\ frees = 1
  /\ overlapped
  /\ ref_cnt = 0
  /\ live_at_free = 0
  /\ \A t \in Threads : u_pc[t] = "idle" /\ held[t] = 0

====
